---- MODULE Spec2Model ----
(***************************************************************************)
(* Checkout session lifecycle of the MNEE Pay checkout widget.             *)
(*                                                                         *)
(* Two session managers exist in the repository and both are modelled:     *)
(*   - CheckoutProvider (contexts/CheckoutContext.tsx), the React context  *)
(*     PaymentConfirmation consumes; its in-flight guard is a useRef;      *)
(*   - the zustand checkout slice (store/slices/cartSlice.ts, second half),*)
(*     whose guard is the field checkout.isCreatingSession.                *)
(*                                                                         *)
(* SpecSession drives both managers through their public operations in     *)
(* every interleaving.  Spec drives the context manager through the        *)
(* PaymentConfirmation component.                                          *)
(***************************************************************************)
EXTENDS Integers, Sequences, FiniteSets, TLC

\* Bound: createSession network requests one run may issue per manager.
MaxSessions == 2

NoSession == 0

SessionIds == 1..MaxSessions

\* Keys of the checkout error map: the reserved key and a field-validation key.
ErrorKeys == {"session", "field"}

\* What the store holds when the slice's createSession reads its
\* preconditions: the first check that fails, or "ok".
ConfigStates ==
    {"ok", "noApiBaseUrl", "noButtonConfig", "noButtonId",
     "noEmail", "noPhone", "noShipping"}

VARIABLES
    \* ---- CheckoutProvider (contexts/CheckoutContext.tsx)
    step,                 \* state.step
    session,              \* state.session (NoSession = undefined)
    errors,               \* keys present in state.errors
    isCreatingSessionRef, \* isCreatingSession.current
    requests,             \* createButtonSessionAPI calls awaiting a response
    nextSession,          \* id the next request will carry
    ctxDisturbed,         \* history: the ref was cleared while a request was in flight
    \* ---- checkout slice (store/slices/cartSlice.ts)
    checkout,             \* [step, formData, errors, isCreatingSession, session, paymentResult]
    config,               \* abstract state of get().config / get().user
    sliceRequests,        \* createButtonSessionAPI calls awaiting a response
    sliceNext,            \* id the next request will carry
    sliceDisturbed,       \* history: the flag was cleared while a request was in flight
    \* ---- observation of the last step
    ev,                   \* [op, mgr, net, threw, onError, msg]
    impl,                 \* which session manager the page mounts: "ctx" or "slice"
    \* ---- form data, payment result and the store's wallet slice
    formData,             \* CheckoutProvider: state.formData
    paymentResult,        \* CheckoutProvider: state.paymentResult is set
    wallet,               \* store: wallet.provider ("none" = undefined)
    \* ---- clock and session deadlines
    now,                  \* the value new Date() returns
    expiresAt,            \* per session id: the expiresAt its response carries
    valid,                \* observation: what the last isSessionValid() returned
    \* ---- carts
    cartMode,             \* how the two cart instances are deployed
    carts,                \* per instance: the cart state
    storage,              \* the cart string in localStorage
    effectPending,        \* per instance: the persist effect is due
    inbox,                \* per instance: storage events not yet handled
    nextId,               \* id the next added item gets
    mutations,            \* history: local cart mutations so far
    applied,              \* history: incoming carts stored so far
    lastSync,             \* observation: what the last change event did
    lastCall,             \* observation: the arguments of the last updateQuantity call
    \* ---- single-product totals of MneeCheckout
    buttonConfig,         \* the button's configuration, amounts in cents
    checkoutType,         \* "ecommerce", "donation" or "paywall"
    orderForm,            \* formData as checkoutTotals reads it
    checkoutTotalsMemo,   \* the value of the checkoutTotals memo of the last render
    \* ---- option pricing of EcommerceCheckout
    productSchema,        \* the customFields prop: the product's field schema
    formSelections,       \* formData.customFields
    optionsTotal,         \* calculateOptionsTotal(customFields, formData) of the last render
    \* ---- wallet connection (store wallet slice with useWalletSync, or WalletProvider)
    walletImpl,           \* which wallet manager the page mounts: "store" or "ctx"
    walletState,          \* [isConnected, isConnecting, address, provider]
    web3Connected,        \* wagmi useAccount: isConnected with an address
    web3Intent,           \* why wagmi may connect next: "none", "reconnect" or "modal"
    yoursExt,             \* the Yours extension is connected for this origin
    webEffectDue,         \* the web3 sync effect is due
    yoursCheckDue,        \* the Yours check effect is due
    yoursCheckAwaiting,   \* a Yours check awaits yoursWallet.isConnected()
    walletOp,             \* [stage, next]: the wallet gesture in progress
    staysDisconnected,    \* history: disconnected and no connect performed since
    \* ---- CartCheckoutModal (part_000)
    swStep,               \* useCheckout().step of the cart checkout, "unmounted" before it
    isSwitchingWallet,    \* isSwitchingWallet.current
    ctxWallet,            \* WalletProvider's state, which CheckoutProvider mirrors
    walletAddress,        \* useCheckout().walletAddress
    switchFrom,           \* history: the provider a wallet switch in progress left
    \* ---- EcommerceCheckout (part_011) and CartView with the user slice
    userContact,          \* useUser().contact: [email, phone] as character sequences
    userShipping,         \* useUser().shipping: [defined, fields]
    collect,              \* the collectEmail / collectPhone / collectShipping props
    sizeValue,            \* formData.customFields.size of the product view
    valView,              \* "product" (EcommerceCheckout) or "cart" (CartView)
    valStep,              \* the step of the checkout the view belongs to
    valErrors,            \* the keys of the error map passed to setErrors
    valHasWallet,         \* a wallet is connected
    \* ---- history of the createSession requests PaymentConfirmation issued
    sessionFor,           \* session id -> the wallet family and token of the request
    clearMark,            \* the id the next request had at the last clearSession / resetCheckout
    \* ---- MneeCheckout / PaymentConfirmation (driven by Spec)
    isOpen,               \* the checkout modal is open
    walletProvider,       \* state.walletProvider: "none", "yours" or "evm"
    comp,                 \* useState / wagmi hook state of the mounted PaymentConfirmation
    inst,                 \* number of the mounted PaymentConfirmation instance
    processedTxHashes,    \* per instance: processedTxHashes.current
    tx,                   \* per transfer: the handler awaiting it and what was called for it
    nextTx,               \* hash the next dispatched transfer will get
    completedBy           \* history: the transfer whose poll set step to complete

ctxVars == <<step, session, errors, isCreatingSessionRef, requests, nextSession, ctxDisturbed>>

sliceVars == <<checkout, config, sliceRequests, sliceNext, sliceDisturbed>>

formVars == <<formData, paymentResult, wallet>>

clockVars == <<now, expiresAt, valid>>

\* State of the parts of the widget the session actions never touch.
cartVars ==
    <<cartMode, carts, storage, effectPending, inbox, nextId, mutations, applied, lastSync,
      lastCall>>

totalsVars == <<buttonConfig, checkoutType, orderForm, checkoutTotalsMemo>>

pricingVars == <<productSchema, formSelections, optionsTotal>>

walletVars ==
    <<walletImpl, walletState, web3Connected, web3Intent, yoursExt, webEffectDue,
      yoursCheckDue, yoursCheckAwaiting, walletOp, staysDisconnected>>

\* The parts of the page added after the cart and the order form.
switchVars == <<swStep, isSwitchingWallet, ctxWallet, walletAddress, switchFrom>>

valVars == <<userContact, userShipping, collect, sizeValue, valView, valStep, valErrors,
             valHasWallet>>

histVars == <<sessionFor, clearMark>>

extraVars == <<walletVars, switchVars, valVars, histVars>>

otherVars == <<clockVars, cartVars, totalsVars, pricingVars, extraVars>>

pcVars == <<isOpen, walletProvider, comp, inst, processedTxHashes, tx, nextTx, completedBy>>

\* An error message, as far as the classifiers read it: the substrings of
\* interest found in its first 100 characters (head) and after them (tail).
Msg(head, tail) == [head |-> head, tail |-> tail]

NoMsg == Msg({"<none>"}, {})

Event(op, mgr, net, threw, onErr) ==
    [op |-> op, mgr |-> mgr, net |-> net, threw |-> threw, onError |-> onErr, msg |-> NoMsg]

\* An event of PaymentConfirmation: whether it issued a createSession
\* request, whether onError was invoked, and the failure it handled.
PcEvent(op, net, onErr, m) ==
    [op |-> op, mgr |-> "pc", net |-> net, threw |-> FALSE, onError |-> onErr, msg |-> m]

NoEvent == Event("none", "none", FALSE, FALSE, FALSE)

\* undefined, as the value of an optional form field
Undefined == 0

\* A form field holds undefined or one entered value.
FormValues == {Undefined, 1}

\* Ids of the custom fields a form can hold a value for.
CustomFieldIds == {"size"}

\* The optional fields the context's resetCheckout copies, and the fields
\* the store's CheckoutFormData type declares besides customFields.
CtxFormKeys == {"email", "shipping", "quantity", "donationAmount"}

SliceFormKeys == {"quantity", "donationAmount"}

initialFormData ==
    [email |-> Undefined, shipping |-> Undefined, quantity |-> Undefined,
     donationAmount |-> Undefined, customFields |-> {}]

initialCheckoutState ==
    [step |-> "initial", formData |-> initialFormData, errors |-> {},
     isCreatingSession |-> FALSE, session |-> NoSession, paymentResult |-> FALSE]

InitCtx ==
    /\ step = "initial"
    /\ session = NoSession
    /\ errors = {}
    /\ isCreatingSessionRef = FALSE
    /\ requests = {}
    /\ nextSession = 1
    /\ ctxDisturbed = FALSE
    /\ formData = initialFormData
    /\ paymentResult = FALSE

InitSlice ==
    /\ checkout = initialCheckoutState
    /\ config \in ConfigStates
    /\ sliceRequests = {}
    /\ sliceNext = 1
    /\ sliceDisturbed = FALSE
    /\ wallet = "none"

(***************************************************************************)
(* CheckoutProvider operations                                             *)
(***************************************************************************)

\* What clearSession and resetCheckout leave alone outside the managers.
ClearRest ==
    UNCHANGED <<clockVars, cartVars, totalsVars, pricingVars, walletVars, switchVars, valVars, sessionFor>>

\* Mutant: the guard never skips a call.
CtxGuardSkips_never == FALSE

\* The guard at the top of createSession: TRUE when the call is skipped.
CtxGuardSkips == isCreatingSessionRef

\* createSession up to its await: skipped by the guard, or the ref is set and
\* one request is issued on behalf of `caller`.
CtxCreateSessionCall(caller) ==
    IF CtxGuardSkips
    THEN UNCHANGED <<session, errors, isCreatingSessionRef, requests, nextSession, ctxDisturbed>>
    ELSE /\ nextSession <= MaxSessions
         /\ isCreatingSessionRef' = TRUE
         /\ requests' = requests \cup {[id |-> nextSession, caller |-> caller, inst |-> inst]}
         /\ nextSession' = nextSession + 1
         /\ UNCHANGED <<session, errors, ctxDisturbed>>

\* The value the finally block stores in the ref.
CtxFinallyFlag == FALSE

\* The rest of createSession once the request `r` settles: the session is
\* stored, or errors becomes {session: message}; then the finally block.
CtxCreateSessionSettle(r, ok) ==
    /\ r \in requests
    /\ requests' = requests \ {r}
    /\ IF ok
       THEN /\ session' = r.id
            /\ errors' = errors
       ELSE /\ session' = session
            /\ errors' = {"session"}
    /\ isCreatingSessionRef' = CtxFinallyFlag
    /\ ctxDisturbed' = (ctxDisturbed /\ requests' # {})
    /\ UNCHANGED nextSession

CtxCreateSession ==
    /\ UNCHANGED pcVars
    /\ impl = "ctx"
    /\ UNCHANGED <<impl, formVars, otherVars>>
    /\ CtxCreateSessionCall("api")
    /\ UNCHANGED step
    /\ ev' = Event("createSession", "ctx", ~CtxGuardSkips, FALSE, FALSE)
    /\ UNCHANGED sliceVars

CtxCreateSessionResolve ==
    /\ UNCHANGED pcVars
    /\ impl = "ctx"
    /\ UNCHANGED <<impl, formVars, otherVars>>
    /\ \E r \in requests, ok \in BOOLEAN :
        /\ r.caller = "api"
        /\ CtxCreateSessionSettle(r, ok)
        /\ UNCHANGED step
        /\ ev' = Event("createSession.settle", "ctx", FALSE, ~ok, FALSE)
        /\ UNCHANGED sliceVars

CtxClearSession ==
    /\ UNCHANGED pcVars
    /\ impl = "ctx"
    /\ UNCHANGED <<impl, formVars>>
    /\ ClearRest
    /\ clearMark' = nextSession
    /\ isCreatingSessionRef' = FALSE
    /\ session' = NoSession
    /\ ctxDisturbed' = (ctxDisturbed \/ requests # {})
    /\ ev' = Event("clearSession", "ctx", FALSE, FALSE, FALSE)
    /\ UNCHANGED <<step, errors, requests, nextSession>>
    /\ UNCHANGED sliceVars

\* Mutant: resetCheckout starts from the initial form data.
CtxResetFormData_initial(prev) == initialFormData

\* The formData object resetCheckout builds from the previous one.
CtxResetFormData(prev) ==
    [email |-> prev.email,
     customFields |-> prev.customFields,
     shipping |-> IF prev.shipping # Undefined THEN prev.shipping ELSE Undefined,
     quantity |-> prev.quantity,
     donationAmount |-> prev.donationAmount]

CtxResetCheckout ==
    /\ UNCHANGED pcVars
    /\ impl = "ctx"
    /\ UNCHANGED <<impl, wallet>>
    /\ ClearRest
    /\ clearMark' = nextSession
    /\ step' = "initial"
    /\ errors' = {}
    /\ formData' = CtxResetFormData(formData)
    /\ session' = NoSession
    /\ paymentResult' = FALSE
    /\ ev' = Event("resetCheckout", "ctx", FALSE, FALSE, FALSE)
    /\ UNCHANGED <<isCreatingSessionRef, requests, nextSession, ctxDisturbed>>
    /\ UNCHANGED sliceVars

CtxSetErrors ==
    /\ UNCHANGED pcVars
    /\ impl = "ctx"
    /\ UNCHANGED <<impl, formVars, otherVars>>
    /\ \E e \in SUBSET ErrorKeys :
        /\ errors' = e
        /\ errors' # errors
        /\ ev' = Event("setErrors", "ctx", FALSE, FALSE, FALSE)
        /\ UNCHANGED <<step, session, isCreatingSessionRef, requests, nextSession, ctxDisturbed>>
        /\ UNCHANGED sliceVars

(***************************************************************************)
(* checkout slice operations                                               *)
(***************************************************************************)

SliceGuardSkips == checkout.isCreatingSession

\* The precondition checks between setting the flag and the try block.
SlicePreconditionThrows == config # "ok"

\* The flag as createSession leaves it when a precondition check throws:
\* the throw is outside the try/finally, so the flag set before it stays.
SliceFlagAfterThrow == TRUE

SliceCreateSession ==
    /\ UNCHANGED pcVars
    /\ impl = "slice"
    /\ UNCHANGED <<impl, formVars, otherVars>>
    /\ IF SliceGuardSkips
       THEN /\ UNCHANGED sliceVars
            /\ ev' = Event("createSession", "slice", FALSE, FALSE, FALSE)
       ELSE IF SlicePreconditionThrows
       THEN /\ checkout' = [checkout EXCEPT !.isCreatingSession = SliceFlagAfterThrow]
            /\ ev' = Event("createSession", "slice", FALSE, TRUE, FALSE)
            /\ UNCHANGED <<config, sliceRequests, sliceNext, sliceDisturbed>>
       ELSE /\ sliceNext <= MaxSessions
            /\ checkout' = [checkout EXCEPT !.isCreatingSession = TRUE]
            /\ sliceRequests' = sliceRequests \cup {sliceNext}
            /\ sliceNext' = sliceNext + 1
            /\ ev' = Event("createSession", "slice", TRUE, FALSE, FALSE)
            /\ UNCHANGED <<config, sliceDisturbed>>
    /\ UNCHANGED ctxVars

SliceCreateSessionResolve ==
    /\ UNCHANGED pcVars
    /\ impl = "slice"
    /\ UNCHANGED <<impl, formVars, otherVars>>
    /\ \E id \in sliceRequests, ok \in BOOLEAN :
        /\ sliceRequests' = sliceRequests \ {id}
        /\ checkout' =
             [checkout EXCEPT
                !.session = IF ok THEN id ELSE @,
                !.errors = IF ok THEN @ \ {"session"} ELSE @ \cup {"session"},
                !.isCreatingSession = FALSE]
        /\ sliceDisturbed' = (sliceDisturbed /\ sliceRequests' # {})
        /\ ev' = Event("createSession.settle", "slice", FALSE, ~ok, FALSE)
        /\ UNCHANGED <<config, sliceNext>>
        /\ UNCHANGED ctxVars

SliceClearSession ==
    /\ UNCHANGED pcVars
    /\ impl = "slice"
    /\ UNCHANGED <<impl, formVars>>
    /\ ClearRest
    /\ clearMark' = sliceNext
    /\ checkout' = [checkout EXCEPT !.isCreatingSession = FALSE, !.session = NoSession]
    /\ sliceDisturbed' = (sliceDisturbed \/ sliceRequests # {})
    /\ ev' = Event("clearSession", "slice", FALSE, FALSE, FALSE)
    /\ UNCHANGED <<config, sliceRequests, sliceNext>>
    /\ UNCHANGED ctxVars

\* The formData object the slice's resetCheckout builds: the three fields
\* it names; any other key of the previous object is left out.
SliceResetFormData(currentData) ==
    [email |-> Undefined,
     shipping |-> Undefined,
     customFields |-> currentData.customFields,
     quantity |-> currentData.quantity,
     donationAmount |-> currentData.donationAmount]

SliceResetCheckout ==
    /\ UNCHANGED pcVars
    /\ impl = "slice"
    /\ UNCHANGED <<impl, formVars>>
    /\ ClearRest
    /\ clearMark' = sliceNext
    /\ checkout' =
         [initialCheckoutState EXCEPT
            !.formData = SliceResetFormData(checkout.formData)]
    /\ sliceDisturbed' = (sliceDisturbed \/ sliceRequests # {})
    /\ ev' = Event("resetCheckout", "slice", FALSE, FALSE, FALSE)
    /\ UNCHANGED <<config, sliceRequests, sliceNext>>
    /\ UNCHANGED ctxVars

SliceSetErrors ==
    /\ UNCHANGED pcVars
    /\ impl = "slice"
    /\ UNCHANGED <<impl, formVars, otherVars>>
    /\ \E e \in SUBSET ErrorKeys :
        /\ checkout' = [checkout EXCEPT !.errors = e]
        /\ checkout' # checkout
        /\ ev' = Event("setErrors", "slice", FALSE, FALSE, FALSE)
        /\ UNCHANGED <<config, sliceRequests, sliceNext, sliceDisturbed>>
        /\ UNCHANGED ctxVars

\* The store's config and user slices change (config loaded, contact saved).
SliceSetConfig ==
    /\ UNCHANGED pcVars
    /\ impl = "slice"
    /\ UNCHANGED <<impl, formVars, otherVars>>
    /\ \E c \in ConfigStates :
        /\ c # config
        /\ config' = c
        /\ ev' = Event("setConfig", "slice", FALSE, FALSE, FALSE)
        /\ UNCHANGED <<checkout, sliceRequests, sliceNext, sliceDisturbed>>
        /\ UNCHANGED ctxVars

(***************************************************************************)
(* Form data, step, payment result and wallet state of both managers       *)
(***************************************************************************)

\* Steps the form components move the checkout to.
FormSteps == {"collecting", "confirming"}

WalletProviders == {"none", "yours", "evm"}

\* updateFormData: the given keys overwrite, customFields is merged.
CtxUpdateFormData ==
    /\ impl = "ctx"
    /\ \/ \E k \in CtxFormKeys, v \in FormValues :
            formData' = [formData EXCEPT ![k] = v]
       \/ \E f \in CustomFieldIds :
            formData' = [formData EXCEPT !.customFields = @ \cup {f}]
    /\ formData' # formData
    /\ ev' = Event("updateFormData", "ctx", FALSE, FALSE, FALSE)
    /\ UNCHANGED <<ctxVars, sliceVars, impl, paymentResult, wallet, pcVars>>
    /\ UNCHANGED otherVars

CtxSetStep ==
    /\ impl = "ctx"
    /\ \E s \in FormSteps :
        /\ s # step
        /\ step' = s
    /\ ev' = Event("setStep", "ctx", FALSE, FALSE, FALSE)
    /\ UNCHANGED <<session, errors, isCreatingSessionRef, requests, nextSession, ctxDisturbed>>
    /\ UNCHANGED <<sliceVars, impl, formVars, pcVars>>
    /\ UNCHANGED otherVars

CtxSetPaymentResult ==
    /\ impl = "ctx"
    /\ ~paymentResult
    /\ paymentResult' = TRUE
    /\ ev' = Event("setPaymentResult", "ctx", FALSE, FALSE, FALSE)
    /\ UNCHANGED <<ctxVars, sliceVars, impl, formData, wallet, pcVars>>
    /\ UNCHANGED otherVars

\* The effect that copies the wallet context's connection into the state.
CtxSyncWallet ==
    /\ impl = "ctx"
    /\ \E p \in WalletProviders :
        /\ p # walletProvider
        /\ walletProvider' = p
    /\ ev' = Event("syncWallet", "ctx", FALSE, FALSE, FALSE)
    /\ UNCHANGED <<isOpen, comp, inst, processedTxHashes, tx, nextTx, completedBy>>
    /\ UNCHANGED <<ctxVars, sliceVars, impl, formVars>>
    /\ UNCHANGED otherVars

\* The store's updateFormData, given the keys its CheckoutFormData declares.
SliceUpdateFormData ==
    /\ impl = "slice"
    /\ \/ \E k \in SliceFormKeys, v \in FormValues :
            checkout' = [checkout EXCEPT !.formData[k] = v]
       \/ \E f \in CustomFieldIds :
            checkout' = [checkout EXCEPT !.formData.customFields = @ \cup {f}]
    /\ checkout' # checkout
    /\ ev' = Event("updateFormData", "slice", FALSE, FALSE, FALSE)
    /\ UNCHANGED <<config, sliceRequests, sliceNext, sliceDisturbed>>
    /\ UNCHANGED <<ctxVars, impl, formVars, pcVars>>
    /\ UNCHANGED otherVars

SliceSetStep ==
    /\ impl = "slice"
    /\ \E s \in FormSteps :
        /\ s # checkout.step
        /\ checkout' = [checkout EXCEPT !.step = s]
    /\ ev' = Event("setStep", "slice", FALSE, FALSE, FALSE)
    /\ UNCHANGED <<config, sliceRequests, sliceNext, sliceDisturbed>>
    /\ UNCHANGED <<ctxVars, impl, formVars, pcVars>>
    /\ UNCHANGED otherVars

SliceSetPaymentResult ==
    /\ impl = "slice"
    /\ ~checkout.paymentResult
    /\ checkout' = [checkout EXCEPT !.paymentResult = TRUE]
    /\ ev' = Event("setPaymentResult", "slice", FALSE, FALSE, FALSE)
    /\ UNCHANGED <<config, sliceRequests, sliceNext, sliceDisturbed>>
    /\ UNCHANGED <<ctxVars, impl, formVars, pcVars>>
    /\ UNCHANGED otherVars

\* syncYoursState / syncWeb3State of the store's wallet slice.
SliceSyncWallet ==
    /\ impl = "slice"
    /\ \E p \in WalletProviders :
        /\ p # wallet
        /\ wallet' = p
    /\ ev' = Event("syncWallet", "slice", FALSE, FALSE, FALSE)
    /\ UNCHANGED <<ctxVars, sliceVars, impl, formData, paymentResult, pcVars>>
    /\ UNCHANGED otherVars

(***************************************************************************)
(* Session validity                                                        *)
(***************************************************************************)

\* Bound: the clock runs from 0 to MaxTime.
MaxTime == 2

Times == 0..MaxTime

\* Mutant: the deadline instant itself still counts as before.
DateBefore_orEqual(a, b) == a <= b

\* The comparison of two Date objects with <.
DateBefore(a, b) == a < b

\* isSessionValid(), given the session it reads.
isSessionValid(s) ==
    IF s = NoSession THEN FALSE ELSE DateBefore(now, expiresAt[s])

CtxIsSessionValid ==
    /\ impl = "ctx"
    /\ valid' = isSessionValid(session)
    /\ ev' = Event("isSessionValid", "ctx", FALSE, FALSE, FALSE)
    /\ UNCHANGED <<ctxVars, sliceVars, impl, formVars, pcVars, cartVars, totalsVars, pricingVars, extraVars, now, expiresAt>>

SliceIsSessionValid ==
    /\ impl = "slice"
    /\ valid' = isSessionValid(checkout.session)
    /\ ev' = Event("isSessionValid", "slice", FALSE, FALSE, FALSE)
    /\ UNCHANGED <<ctxVars, sliceVars, impl, formVars, pcVars, cartVars, totalsVars, pricingVars, extraVars, now, expiresAt>>

\* Time passes.  No handler of either manager is scheduled on the clock.
Tick ==
    /\ now < MaxTime
    /\ now' = now + 1
    /\ ev' = Event("tick", "none", FALSE, FALSE, FALSE)
    /\ UNCHANGED <<ctxVars, sliceVars, impl, formVars, pcVars, cartVars, totalsVars, pricingVars, extraVars, expiresAt, valid>>

\* The clock of a run that never reads it.
InitClock ==
    /\ now = 0
    /\ expiresAt = [i \in SessionIds |-> MaxTime]
    /\ valid = FALSE

(***************************************************************************)
(* Pricing: option modifiers (lib/pricing.ts)                              *)
(*                                                                         *)
(* Money is counted in mills (1/1000 USD) and added exactly; the source    *)
(* adds IEEE doubles of dollars.                                           *)
(***************************************************************************)

\* undefined, as the price of an option or of a checkbox field
NoPrice == -1

\* A custom field of a schema and an option of a select or radio field.
Field(id, type, options, price) ==
    [id |-> id, type |-> type, options |-> options, price |-> price]

Option(value, price) == [value |-> value, price |-> price]

\* formData.customFields[id]: the stored value, "" when the key is absent
\* (both are falsy).
Selected(selections, id) ==
    IF id \in DOMAIN selections THEN selections[id] ELSE ""

\* field.options.find(opt => opt.value === selectedValue): the index of the
\* first match, 0 when there is none.
RECURSIVE FindOption(_, _, _)
FindOption(options, selectedValue, k) ==
    IF k > Len(options) THEN 0
    ELSE IF options[k].value = selectedValue THEN k
    ELSE FindOption(options, selectedValue, k + 1)

\* if (x && x.price): the price is defined and not 0.
Truthy(price) == price # NoPrice /\ price # 0

\* Mutant: the running total is overwritten instead of added to.
Accumulate_overwrite(total, price) == price

\* total += price
Accumulate(total, price) == total + price

\* The body of the forEach callback of calculateOptionsTotal.
TotalStep(total, field, selections) ==
    IF field.type = "checkbox"
    THEN IF Selected(selections, field.id) # "" /\ Truthy(field.price)
         THEN Accumulate(total, field.price)
         ELSE total
    ELSE IF field.type \notin {"select", "radio"} THEN total
    ELSE IF field.options = <<>> THEN total
    ELSE IF Selected(selections, field.id) = "" THEN total
    ELSE LET k == FindOption(field.options, Selected(selections, field.id), 1)
         IN  IF k # 0 /\ Truthy(field.options[k].price)
             THEN Accumulate(total, field.options[k].price)
             ELSE total

RECURSIVE TotalFrom(_, _, _, _)
TotalFrom(customFields, selections, k, total) ==
    IF k > Len(customFields) THEN total
    ELSE TotalFrom(customFields, selections, k + 1,
                   TotalStep(total, customFields[k], selections))

calculateOptionsTotal(customFields, selections) ==
    IF Len(customFields) = 0 THEN 0
    ELSE TotalFrom(customFields, selections, 1, 0)

\* Mutant: the price is not stored in the map.
PricesPut_skip(prices, id, price) == prices

\* prices[field.id] = price
PricesPut(prices, id, price) ==
    [k \in DOMAIN prices \cup {id} |-> IF k = id THEN price ELSE prices[k]]

\* The body of the forEach callback of getOptionPrices.
PricesStep(prices, field, selections) ==
    IF field.type = "checkbox"
    THEN IF Selected(selections, field.id) # "" /\ Truthy(field.price)
         THEN PricesPut(prices, field.id, field.price)
         ELSE prices
    ELSE IF field.type \notin {"select", "radio"} THEN prices
    ELSE IF field.options = <<>> THEN prices
    ELSE IF Selected(selections, field.id) = "" THEN prices
    ELSE LET k == FindOption(field.options, Selected(selections, field.id), 1)
         IN  IF k # 0 /\ field.options[k].price # NoPrice
             THEN PricesPut(prices, field.id, field.options[k].price)
             ELSE prices

RECURSIVE PricesFrom(_, _, _, _)
PricesFrom(customFields, selections, k, prices) ==
    IF k > Len(customFields) THEN prices
    ELSE PricesFrom(customFields, selections, k + 1,
                    PricesStep(prices, customFields[k], selections))

\* The empty object {}.
EmptyMap == [k \in {} |-> 0]

getOptionPrices(customFields, selections) ==
    IF Len(customFields) = 0 THEN EmptyMap
    ELSE PricesFrom(customFields, selections, 1, EmptyMap)

\* The sum of the values of a map.
RECURSIVE SumValues(_)
SumValues(m) ==
    IF DOMAIN m = {} THEN 0
    ELSE LET k == CHOOSE x \in DOMAIN m : TRUE
         IN  m[k] + SumValues([j \in DOMAIN m \ {k} |-> m[j]])

(***************************************************************************)
(* Cart: items, derived counters and totals                                *)
(* (store/slices/cartSlice.ts first half, contexts/CartContext.tsx)        *)
(***************************************************************************)

\* Bounds: items one run adds to carts, and local cart mutations of a run.
MaxAdds == 2

MaxMutations == 2

\* undefined or 0, as a line's freeShippingThreshold (both are falsy)
NoThreshold == 0

\* The size field of product B: a select whose second option costs 5.00.
SizeField ==
    Field("size", "select", <<Option("S", NoPrice), Option("L", 5000)>>, NoPrice)

\* The products a page sells, as the props of EcommerceCheckout (the price
\* and the shipping cost in mills, the tax rate in percent).  The first costs
\* 19.995 with 8% tax and ships for 4.995 whatever the subtotal; the second
\* costs 20.00 and ships for 5.00, free from 50.00.
Products ==
    {[priceUsdMills |-> 19995, taxRatePercent |-> 8, shippingCostMills |-> 4995,
      freeShippingThreshold |-> 0, customFields |-> <<>>],
     [priceUsdMills |-> 20000, taxRatePercent |-> 0, shippingCostMills |-> 5000,
      freeShippingThreshold |-> 5000, customFields |-> <<SizeField>>]}

\* What formData.customFields can hold for a product's schema.
SelectionsOf(product) ==
    IF product.customFields = <<>> THEN {EmptyMap}
    ELSE {EmptyMap} \cup {[k \in {"size"} |-> v] : v \in {"S", "L"}}

Quantities == {1, 2}

MillsPerCent == 10

\* The item handleAddToCart passes to addToCart.  taxRate is kept in
\* hundredths (taxRatePercent / 100 in the source); a threshold of 0 or
\* undefined leaves the key undefined.
NewItem(product, selections, quantity) ==
    [baseAmount |-> product.priceUsdMills,
     quantity |-> quantity,
     selectedOptions |-> selections,
     customFieldsSchema |-> product.customFields,
     optionPrices |-> getOptionPrices(product.customFields, selections),
     optionsTotal |-> calculateOptionsTotal(product.customFields, selections),
     taxRate |-> IF product.taxRatePercent # 0 THEN product.taxRatePercent ELSE 0,
     shippingCost |->
        IF product.shippingCostMills # 0
        THEN product.shippingCostMills ELSE 0,
     freeShippingThreshold |->
        IF product.freeShippingThreshold # 0
        THEN product.freeShippingThreshold * MillsPerCent ELSE NoThreshold]

initialCartState == [items |-> <<>>, itemCount |-> 0, subtotal |-> 0]

RECURSIVE SumSeq(_)
SumSeq(s) == IF s = <<>> THEN 0 ELSE Head(s) + SumSeq(Tail(s))

\* items.reduce((sum, i) => sum + i.quantity, 0)
ReduceQuantity(items) == SumSeq([k \in 1..Len(items) |-> items[k].quantity])

\* items.reduce((sum, i) => sum + (i.baseAmount + i.optionsTotal) * i.quantity, 0)
ReduceSubtotal(items) ==
    SumSeq([k \in 1..Len(items) |->
              (items[k].baseAmount + items[k].optionsTotal) * items[k].quantity])

\* Mutant: the counters of the previous state are kept.
Recomputed_stale(prev, items) == [prev EXCEPT !.items = items]

\* The cart a mutation stores: the new items with both counters recomputed.
Recomputed(prev, items) ==
    [items |-> items,
     itemCount |-> ReduceQuantity(items),
     subtotal |-> ReduceSubtotal(items)]

\* { ...item, id }
WithId(item, id) ==
    [k \in DOMAIN item \cup {"id"} |-> IF k = "id" THEN id ELSE item[k]]

addToCart(cart, item, id) ==
    Recomputed(cart, Append(cart.items, WithId(item, id)))

removeFromCart(cart, itemId) ==
    Recomputed(cart, SelectSeq(cart.items, LAMBDA i : i.id # itemId))

updateQuantity(cart, itemId, quantity) ==
    Recomputed(cart,
        [k \in 1..Len(cart.items) |->
            IF cart.items[k].id = itemId
            THEN [cart.items[k] EXCEPT !.quantity = quantity]
            ELSE cart.items[k]])

\* Math.round(n / d) for n >= 0 and d > 0: halves round up.
MathRound(n, d) == (2 * n + d) \div (2 * d)

\* Math.round(x * 100) / 100 of an amount in mills.
Round2(mills) == MathRound(mills, MillsPerCent) * MillsPerCent

\* (item.baseAmount + item.optionsTotal) * item.quantity
ItemSubtotal(item) == (item.baseAmount + item.optionsTotal) * item.quantity

\* Math.round(itemSubtotal * itemTaxRate * 100) / 100
ItemTax(item) == MathRound(ItemSubtotal(item) * item.taxRate, 1000) * MillsPerCent

\* Mutant: the threshold is exclusive.
ReachesThreshold_strict(itemSubtotal, threshold) == itemSubtotal > threshold

\* itemSubtotal >= item.freeShippingThreshold
ReachesThreshold(itemSubtotal, threshold) == itemSubtotal >= threshold

ItemShipping(item) ==
    IF item.shippingCost # 0 /\ item.shippingCost > 0
    THEN IF item.freeShippingThreshold # NoThreshold
            /\ ReachesThreshold(ItemSubtotal(item), item.freeShippingThreshold)
         THEN 0
         ELSE item.shippingCost
    ELSE 0

\* One entry of itemBreakdown.
Breakdown(item) ==
    [itemId |-> item.id,
     itemSubtotal |-> Round2(ItemSubtotal(item)),
     itemTax |-> ItemTax(item),
     itemShipping |-> Round2(ItemShipping(item)),
     itemTotal |-> Round2(ItemSubtotal(item) + ItemTax(item) + ItemShipping(item))]

\* getCartTotal: the running totals add the line subtotal and the line
\* shipping as computed and the line tax as rounded; each is rounded once
\* more at the end.
getCartTotal(items) ==
    LET totalSubtotal == SumSeq([k \in 1..Len(items) |-> ItemSubtotal(items[k])])
        totalTax == SumSeq([k \in 1..Len(items) |-> ItemTax(items[k])])
        totalShipping == SumSeq([k \in 1..Len(items) |-> ItemShipping(items[k])])
    IN  [subtotal |-> Round2(totalSubtotal),
         tax |-> Round2(totalTax),
         shipping |-> Round2(totalShipping),
         total |-> Round2(totalSubtotal + totalTax + totalShipping),
         itemBreakdown |-> [k \in 1..Len(items) |-> Breakdown(items[k])]]

\* Math.round(amount * 100): an amount in mills as a whole number of cents.
ToCents(mills) == MathRound(mills, MillsPerCent)

\* MneeCheckout.cartSessionData: the cents sent with a cart checkout;
\* totalCents is the amount to charge.
cartSessionData(items) ==
    LET totals == getCartTotal(items)
        subtotalCents == ToCents(totals.subtotal)
        taxCents == ToCents(totals.tax)
        shippingCents == ToCents(totals.shipping)
    IN  [subtotalCents |-> subtotalCents,
         taxCents |-> taxCents,
         shippingCents |-> shippingCents,
         totalCents |-> subtotalCents + taxCents + shippingCents]

(***************************************************************************)
(* Cart instances, the persisted snapshot and change events                *)
(* (contexts/CartContext.tsx, hooks/useStoreSync.ts, store/index.ts)       *)
(***************************************************************************)

\* Two cart instances: two CartProviders of one page ("ctxPage"), one
\* CartProvider in each of two tabs ("ctxTabs"), or one store in each of two
\* tabs ("storeTabs").
Instances == {1, 2}

CartModes == {"ctxPage", "ctxTabs", "storeTabs"}

\* Bound: the counter of applied updates stops counting here.
MaxApplied == 3

\* JSON.stringify of a cart: each item without its undefined keys.
JSONStringify(cart) ==
    [cart EXCEPT !.items =
        [k \in 1..Len(cart.items) |->
            LET item == cart.items[k]
                keys == IF item.freeShippingThreshold = NoThreshold
                        THEN DOMAIN item \ {"freeShippingThreshold"}
                        ELSE DOMAIN item
            IN  [f \in keys |-> item[f]]]]

\* JSON.parse of a stored cart; a key the string lacks reads as undefined.
JSONParse(string) ==
    [string EXCEPT !.items =
        [k \in 1..Len(string.items) |->
            LET item == string.items[k]
            IN  [f \in DOMAIN item \cup {"freeShippingThreshold"} |->
                    IF f \in DOMAIN item THEN item[f] ELSE NoThreshold]]]

\* The cart a returning visitor finds in localStorage.
PersistedCart == addToCart(initialCartState, NewItem(CHOOSE p \in Products : p.customFields # <<>>, EmptyMap, 1), 0)

NoSync == [inst |-> 0, applied |-> FALSE, differs |-> FALSE]

\* An instance handles its next event only after its own pending persist
\* effect has run; the providers of one page share one thread.
CanAct(i) ==
    CASE cartMode = "ctxPage" -> \A j \in Instances : ~effectPending[j]
      [] cartMode = "ctxTabs" -> ~effectPending[i]
      [] OTHER -> TRUE

\* localStorage.setItem: the tabs other than the writer's get a storage
\* event when the stored value changes; a write of the store's snapshot may
\* also change its user and wallet parts (changedElsewhere).
SetItem(i, string, changedElsewhere) ==
    /\ storage' = string
    /\ inbox' =
         [j \in Instances |->
            IF j # i /\ cartMode # "ctxPage" /\ (string # storage \/ changedElsewhere)
            THEN Append(inbox[j], string)
            ELSE inbox[j]]

\* How a local mutation of instance i is committed: the context schedules
\* its persist effect, the store's persist middleware writes at once.
Commit_cart(i, cart) ==
    /\ carts' = [carts EXCEPT ![i] = cart]
    /\ IF cartMode = "storeTabs"
       THEN /\ SetItem(i, JSONStringify(cart), FALSE)
            /\ UNCHANGED effectPending
       ELSE /\ effectPending' = [effectPending EXCEPT ![i] = TRUE]
            /\ UNCHANGED <<storage, inbox>>

\* What every cart step leaves alone.
CartRest ==
    UNCHANGED <<ctxVars, sliceVars, impl, formVars, clockVars, totalsVars, pcVars, extraVars, cartMode>>

NoCall == [inst |-> 0, itemId |-> 0, quantity |-> 0]

CartFrame(op) ==
    /\ ev' = Event(op, "cart", FALSE, FALSE, FALSE)
    /\ lastCall' = NoCall
    /\ CartRest
    /\ UNCHANGED pricingVars

LocalMutation(i) ==
    /\ CanAct(i)
    /\ mutations < MaxMutations
    /\ mutations' = mutations + 1
    /\ lastSync' = NoSync
    /\ UNCHANGED applied

\* handleAddToCart: the item is priced from the product and the form's
\* selections and handed to addToCart, which gives it a fresh id.
CartAddToCart ==
    \E i \in Instances, product \in Products, quantity \in Quantities :
    \E selections \in SelectionsOf(product) :
        /\ LocalMutation(i)
        /\ nextId <= MaxAdds
        /\ nextId' = nextId + 1
        /\ Commit_cart(i, addToCart(carts[i], NewItem(product, selections, quantity), nextId))
        /\ CartFrame("addToCart")

CartRemoveFromCart ==
    \E i \in Instances :
    \E k \in 1..Len(carts[i].items) :
        /\ LocalMutation(i)
        /\ Commit_cart(i, removeFromCart(carts[i], carts[i].items[k].id))
        /\ CartFrame("removeFromCart")
        /\ UNCHANGED nextId

\* Mutant: only a negative quantity is refused.
QuantityRefused_negative(quantity) == quantity < 0

\* if (quantity < 1) return;
QuantityRefused(quantity) == quantity < 1

\* updateQuantity returns at once for a quantity below 1.
CartUpdateQuantity ==
    \E i \in Instances, quantity \in {0} \cup Quantities :
    \E k \in 1..Len(carts[i].items) :
        /\ CanAct(i)
        /\ IF QuantityRefused(quantity)
           THEN UNCHANGED <<carts, storage, inbox, effectPending, mutations, applied, lastSync>>
           ELSE /\ quantity # carts[i].items[k].quantity
                /\ LocalMutation(i)
                /\ Commit_cart(i, updateQuantity(carts[i], carts[i].items[k].id, quantity))
        /\ ev' = Event("updateQuantity", "cart", FALSE, FALSE, FALSE)
        /\ lastCall' = [inst |-> i, itemId |-> carts[i].items[k].id, quantity |-> quantity]
        /\ CartRest
        /\ UNCHANGED <<pricingVars, nextId>>

CartClearCart ==
    \E i \in Instances :
        /\ carts[i].items # <<>>
        /\ LocalMutation(i)
        /\ Commit_cart(i, initialCartState)
        /\ CartFrame("clearCart")
        /\ UNCHANGED nextId

\* if (JSON.stringify(prevCart) !== JSON.stringify(e.detail))
Differs(current, incoming) == JSONStringify(current) # incoming

Count(n) == IF n < MaxApplied THEN n + 1 ELSE n

\* The persist effect of a CartProvider: saveCartToStorage writes the cart
\* and dispatches the custom event, which every CartProvider of the page
\* handles with handleCartUpdate.
CartPersist ==
    \E i \in Instances :
        /\ cartMode # "storeTabs"
        /\ effectPending[i]
        /\ SetItem(i, JSONStringify(carts[i]), FALSE)
        /\ LET detail == carts[i]
               takers == {j \in Instances :
                            /\ cartMode = "ctxPage"
                            /\ Differs(carts[j], JSONStringify(detail))}
           IN  /\ carts' = [j \in Instances |-> IF j \in takers THEN detail ELSE carts[j]]
               /\ effectPending' =
                    [j \in Instances |->
                        IF j = i THEN FALSE ELSE j \in takers \/ effectPending[j]]
               /\ applied' = IF takers # {} THEN Count(applied) ELSE applied
               /\ lastSync' =
                    IF cartMode = "ctxPage"
                    THEN [inst |-> i, applied |-> takers # {}, differs |-> takers # {}]
                    ELSE NoSync
        /\ CartFrame("saveCartToStorage")
        /\ UNCHANGED <<nextId, mutations>>

\* Mutant: a storage event is never applied.
StorageEventApplies_never(current, incoming) == FALSE

\* Whether the handler of a storage event stores the incoming cart:
\* handleStorageChange always does, handleStorage compares first.
StorageEventApplies(current, incoming) ==
    IF cartMode = "storeTabs" THEN Differs(current, incoming) ELSE TRUE

\* A storage event reaches a tab: handleStorageChange of the CartProvider,
\* or handleStorage of useStoreSync followed by the persist middleware.
CartStorageEvent ==
    \E j \in Instances, changedElsewhere \in BOOLEAN :
        /\ inbox[j] # <<>>
        /\ CanAct(j)
        /\ LET newValue == Head(inbox[j])
               applies == StorageEventApplies(carts[j], newValue)
           IN  /\ lastSync' = [inst |-> j, applied |-> applies,
                               differs |-> Differs(carts[j], newValue)]
               /\ applied' = IF applies THEN Count(applied) ELSE applied
               /\ carts' = [carts EXCEPT ![j] = IF applies THEN JSONParse(newValue) ELSE @]
               /\ IF cartMode = "storeTabs"
                  THEN /\ UNCHANGED effectPending
                       /\ IF applies
                          THEN /\ storage' = newValue
                               /\ inbox' =
                                    [k \in Instances |->
                                       IF k = j THEN Tail(inbox[j])
                                       ELSE IF newValue # storage \/ changedElsewhere
                                       THEN Append(inbox[k], newValue)
                                       ELSE inbox[k]]
                          ELSE /\ ~changedElsewhere
                               /\ storage' = storage
                               /\ inbox' = [inbox EXCEPT ![j] = Tail(@)]
                  ELSE /\ ~changedElsewhere
                       /\ effectPending' = [effectPending EXCEPT ![j] = applies]
                       /\ storage' = storage
                       /\ inbox' = [inbox EXCEPT ![j] = Tail(@)]
        /\ CartFrame("storageEvent")
        /\ UNCHANGED <<nextId, mutations>>

\* The cart of a run that never touches it.
InitCartIdle ==
    /\ cartMode = "ctxPage"
    /\ carts = [i \in Instances |-> initialCartState]
    /\ storage = JSONStringify(initialCartState)
    /\ effectPending = [i \in Instances |-> FALSE]
    /\ inbox = [i \in Instances |-> <<>>]
    /\ nextId = 1
    /\ mutations = 0
    /\ applied = 0
    /\ lastSync = NoSync
    /\ lastCall = NoCall

(***************************************************************************)
(* Single-product totals (MneeCheckout.checkoutTotals), amounts in cents   *)
(***************************************************************************)

\* The option field of the configured product: the second option adds 2.00.
ConfigField ==
    [id |-> "size",
     options |-> <<[value |-> "std", priceModifierCents |-> 0],
                   [value |-> "xl", priceModifierCents |-> 200]>>]

\* Button configurations: a product of 19.99 with one option field, taxed
\* at 8% or not, shipped for 5.00 or not, free from 43.98, from 50.00 or
\* never (0 stands for an absent number).
ButtonConfigs ==
    [priceUsdCents : {1999},
     customFields : {<<ConfigField>>},
     taxRatePercent : {0, 8},
     collectShipping : BOOLEAN,
     shippingCostCents : {0, 500},
     freeShippingThreshold : {0, 4398, 5000}]

CheckoutTypes == {"ecommerce", "donation"}

\* formData: quantity (0 = undefined), the selected option ("" = none) and
\* the donation amount in mills (0 = undefined).
OrderQuantities == {0, 1, 2}

OrderSelections == {"", "std", "xl"}

DonationAmounts == {0, 25005}

initialOrderForm == [quantity |-> 0, customFields |-> EmptyMap, donationAmount |-> 0]

\* The forEach that adds the price modifiers of the selected options.
RECURSIVE ModifiersFrom(_, _, _, _)
ModifiersFrom(customFields, selections, k, subtotal) ==
    IF k > Len(customFields) THEN subtotal
    ELSE LET field == customFields[k]
             selectedValue == Selected(selections, field.id)
             j == IF selectedValue # "" /\ field.options # <<>>
                  THEN FindOption(field.options, selectedValue, 1) ELSE 0
         IN  ModifiersFrom(customFields, selections, k + 1,
                 IF j # 0 /\ field.options[j].priceModifierCents # 0
                 THEN subtotal + field.options[j].priceModifierCents
                 ELSE subtotal)

\* Mutant: the tax is truncated to the cent.
TaxCents_truncated(subtotal, taxRatePercent) == (subtotal * taxRatePercent) \div 100

\* Math.round(subtotal * (taxRatePercent / 100))
TaxCents(subtotal, taxRatePercent) == MathRound(subtotal * taxRatePercent, 100)

checkoutTotals(cfg, type, form) ==
    LET subtotal ==
            IF type = "donation" /\ form.donationAmount # 0
            THEN MathRound(form.donationAmount, MillsPerCent)
            ELSE ModifiersFrom(cfg.customFields, form.customFields, 1,
                               cfg.priceUsdCents)
                   * (IF form.quantity # 0 THEN form.quantity ELSE 1)
        tax ==
            IF cfg.taxRatePercent # 0 /\ cfg.taxRatePercent > 0
            THEN TaxCents(subtotal, cfg.taxRatePercent)
            ELSE 0
        shipping ==
            IF cfg.collectShipping /\ cfg.shippingCostCents # 0
            THEN IF /\ cfg.freeShippingThreshold # 0
                    /\ subtotal >= cfg.freeShippingThreshold
                 THEN 0
                 ELSE cfg.shippingCostCents
            ELSE 0
    IN  [subtotal |-> subtotal, tax |-> tax, shipping |-> shipping,
         total |-> subtotal + tax + shipping]

\* A change of formData re-renders MneeCheckout, which recomputes the memo.
Render(form) ==
    /\ orderForm' = form
    /\ checkoutTotalsMemo' = checkoutTotals(buttonConfig, checkoutType, form)
    /\ UNCHANGED <<buttonConfig, checkoutType>>
    /\ UNCHANGED <<ctxVars, sliceVars, impl, formVars, clockVars, cartVars, pricingVars, extraVars, pcVars>>

\* handleQuantityChange: a quantity below 1 is ignored.
OrderQuantityChange ==
    \E newQuantity \in OrderQuantities :
        /\ newQuantity # orderForm.quantity
        /\ IF newQuantity < 1
           THEN UNCHANGED totalsVars
                /\ UNCHANGED <<ctxVars, sliceVars, impl, formVars, clockVars, cartVars, pricingVars, extraVars, pcVars>>
           ELSE Render([orderForm EXCEPT !.quantity = newQuantity])
        /\ ev' = Event("handleQuantityChange", "totals", FALSE, FALSE, FALSE)

\* A form field stores the chosen option in formData.customFields.
OrderSelectOption ==
    \E value \in OrderSelections :
        /\ value # Selected(orderForm.customFields, "size")
        /\ Render([orderForm EXCEPT !.customFields = [k \in {"size"} |-> value]])
        /\ ev' = Event("selectOption", "totals", FALSE, FALSE, FALSE)

\* The donation form stores the chosen amount.
OrderDonationAmount ==
    \E amount \in DonationAmounts :
        /\ amount # orderForm.donationAmount
        /\ Render([orderForm EXCEPT !.donationAmount = amount])
        /\ ev' = Event("donationAmount", "totals", FALSE, FALSE, FALSE)

\* The totals of a run that never renders them.
InitTotalsIdle ==
    /\ buttonConfig = CHOOSE c \in ButtonConfigs :
                         c.taxRatePercent = 0 /\ ~c.collectShipping
                         /\ c.shippingCostCents = 0 /\ c.freeShippingThreshold = 0
    /\ checkoutType = "ecommerce"
    /\ orderForm = initialOrderForm
    /\ checkoutTotalsMemo = checkoutTotals(buttonConfig, checkoutType, orderForm)

(***************************************************************************)
(* Option pricing in EcommerceCheckout (part_011, lib/pricing.ts)          *)
(***************************************************************************)

\* Bound: fields of a schema.
MaxFields == 3

\* The fields schemas are built from: a select, a checkbox, a radio group
\* and a text field; field ids are unique within a schema.
FieldPool ==
    {SizeField,
     Field("gift", "checkbox", <<>>, 2500),
     Field("color", "radio", <<Option("red", 0), Option("blue", 1500)>>, NoPrice),
     Field("note", "text", <<>>, NoPrice)}

Schemas ==
    {sq \in UNION {[1..n -> FieldPool] : n \in 0..MaxFields} :
        \A a, b \in 1..Len(sq) : a # b => sq[a].id # sq[b].id}

\* The keys formData.customFields can have and the values stored under
\* them; "coupon" names no field of any schema, "XL" no option.
SelectionValues ==
    [size |-> {"S", "L", "XL"}, gift |-> {"yes"}, color |-> {"red", "blue"},
     coupon |-> {"x"}]

SelectionMaps ==
    UNION {{m \in [keys -> {"S", "L", "XL", "yes", "red", "blue"}] :
               \A k \in keys : m[k] \in SelectionValues[k]} :
           keys \in SUBSET {"size", "gift", "color"}}

FieldIds(customFields) == {customFields[k].id : k \in 1..Len(customFields)}

\* A product with the schema of the page: 10.00, untaxed, not shipped.
ProductOf(customFields) ==
    [priceUsdMills |-> 10000, taxRatePercent |-> 0, shippingCostMills |-> 0,
     freeShippingThreshold |-> 0, customFields |-> customFields]

\* The tab that shows the product page.
PageInstance == 1

PricingFrame(op) ==
    /\ ev' = Event(op, "pricing", FALSE, FALSE, FALSE)
    /\ optionsTotal' = calculateOptionsTotal(productSchema', formSelections')

\* The merchant moves a field of the schema one place up; the page renders
\* with the new customFields prop.
ReorderSchema ==
    \E k \in 1..(Len(productSchema) - 1) :
        /\ productSchema' = [productSchema EXCEPT ![k] = productSchema[k + 1], ![k + 1] = productSchema[k]]
        /\ UNCHANGED formSelections
        /\ PricingFrame("reorderSchema")
        /\ CartRest
        /\ UNCHANGED cartVars

\* formData.customFields gains a key that names no field of the schema.
AddUnrelatedKey ==
    \E k \in DOMAIN SelectionValues \ (FieldIds(productSchema) \cup DOMAIN formSelections) :
    \E v \in SelectionValues[k] :
        /\ formSelections' = [j \in DOMAIN formSelections \cup {k} |->
                             IF j = k THEN v ELSE formSelections[j]]
        /\ UNCHANGED productSchema
        /\ PricingFrame("addUnrelatedKey")
        /\ CartRest
        /\ UNCHANGED cartVars

\* handleAddToCart for the page's schema and the form's selections; the
\* updateFormData that follows merges an empty customFields object, which
\* leaves the selections as they are.
PricingAddToCart ==
    LET i == PageInstance IN
        /\ LocalMutation(i)
        /\ nextId <= MaxAdds
        /\ nextId' = nextId + 1
        /\ Commit_cart(i, addToCart(carts[i], NewItem(ProductOf(productSchema), formSelections, 1), nextId))
        /\ UNCHANGED <<productSchema, formSelections>>
        /\ PricingFrame("handleAddToCart")
        /\ CartRest
        /\ UNCHANGED lastCall

\* The field of a schema with the given id (ids are unique in a schema).
FieldOf(customFields, id) ==
    customFields[CHOOSE k \in 1..Len(customFields) : customFields[k].id = id]

\* The price modifier one field contributes for a selection map: the price
\* of the ticked checkbox, the price of the chosen option of a select or a
\* radio group, nothing otherwise.
ModifierOf(field, selected) ==
    IF field.id \notin DOMAIN selected THEN 0
    ELSE IF field.type = "checkbox"
         THEN (IF field.price = NoPrice THEN 0 ELSE field.price)
    ELSE IF field.type \in {"select", "radio"}
         THEN LET chosen == {k \in 1..Len(field.options) :
                                field.options[k].value = selected[field.id]}
              IN  IF chosen = {} THEN 0
                  ELSE LET price == field.options[CHOOSE k \in chosen : TRUE].price
                       IN  IF price = NoPrice THEN 0 ELSE price
    ELSE 0

\* The modifiers of all fields of a schema, summed without an order.
ModifierSum(customFields, selected) ==
    SumValues([id \in FieldIds(customFields) |->
                  ModifierOf(FieldOf(customFields, id), selected)])

\* The option pricing of a run that never shows a product form.
InitPricingIdle ==
    /\ productSchema = <<>>
    /\ formSelections = EmptyMap
    /\ optionsTotal = 0

(***************************************************************************)
(* Wallet connection: the store's wallet slice driven by useWalletSync     *)
(* (part_021, hooks/useWalletSync.ts) and WalletProvider                   *)
(* (contexts/WalletContext.tsx), with the WalletConnection buttons         *)
(***************************************************************************)

WalletImpls == {"store", "ctx"}

ProviderKinds == {"rainbowkit", "yours"}

initialWalletState ==
    [isConnected |-> FALSE, isConnecting |-> FALSE, address |-> "none", provider |-> "none"]

IdleOp == [stage |-> "idle", next |-> "none"]

\* State updates of the two managers.  The store's sync calls assign every
\* field of their argument; the provider's effects spread the previous state.
Web3Synced(prev) ==
    IF walletImpl = "store"
    THEN [isConnected |-> TRUE, isConnecting |-> FALSE, address |-> "evm",
          provider |-> "rainbowkit"]
    ELSE [prev EXCEPT !.isConnected = TRUE, !.address = "evm", !.provider = "rainbowkit"]

YoursSynced(prev) ==
    IF walletImpl = "store"
    THEN [isConnected |-> TRUE, isConnecting |-> FALSE, address |-> "bsv",
          provider |-> "yours"]
    ELSE [prev EXCEPT !.isConnected = TRUE, !.address = "bsv", !.provider = "yours"]

YoursConnected ==
    [isConnected |-> TRUE, isConnecting |-> FALSE, address |-> "bsv", provider |-> "yours"]

\* A step's writes to the wallet state and to wagmi's account; an effect is
\* due again when one of its dependencies changed (web3Connected and the
\* provider; the provider's Yours check depends on the hook object only).
WalletSet(newState, newWeb3, ranWeb, ranCheck) ==
    LET depsChanged ==
            newState.provider # walletState.provider \/ newWeb3 # web3Connected
    IN  /\ walletState' = newState
        /\ web3Connected' = newWeb3
        /\ webEffectDue' = (depsChanged \/ (webEffectDue /\ ~ranWeb))
        /\ yoursCheckDue' =
             ((walletImpl = "store" /\ depsChanged) \/ (yoursCheckDue /\ ~ranCheck))

\* WalletProvider's state after its web3 sync effect stored the account.
CtxWeb3Synced ==
    [ctxWallet EXCEPT !.isConnected = TRUE, !.address = "evm", !.provider = "rainbowkit"]

\* The web3 sync effect of WalletProvider has something to store.
CtxWeb3SyncCond ==
    \/ web3Connected /\ ctxWallet # CtxWeb3Synced
    \/ ~web3Connected /\ ctxWallet.provider = "rainbowkit"

\* What CheckoutProvider's wallet effect stores as walletAddress.
Mirrored ==
    IF ctxWallet.isConnected /\ ctxWallet.address # "none" /\ ctxWallet.provider # "none"
    THEN ctxWallet.address ELSE "none"

\* CartCheckoutModalContent's effect, first branch
AutoTransitionCond ==
    /\ walletState.isConnected
    /\ walletState.address # "none"
    /\ swStep = "connecting"
    /\ ~isSwitchingWallet

\* CartCheckoutModalContent's effect, second branch
FlagResetCond ==
    /\ ~walletState.isConnected
    /\ walletState.address = "none"
    /\ swStep = "connecting"
    /\ isSwitchingWallet

\* CartCheckoutContent's auto-advance effect
AutoAdvanceCond == walletAddress # "none" /\ swStep = "connecting"

\* An effect of the mounted cart checkout has work to do.
SwitchEffectDue ==
    /\ swStep # "unmounted"
    /\ \/ CtxWeb3SyncCond
       \/ walletAddress # Mirrored
       \/ AutoTransitionCond
       \/ FlagResetCond
       \/ AutoAdvanceCond

\* Effects run right after the render that made them due, before the next
\* event from the user, the wallet or wagmi is handled.
EffectsSettled == ~webEffectDue /\ ~yoursCheckDue /\ ~SwitchEffectDue

WalletFrame(op) ==
    /\ ev' = Event(op, "wallet", FALSE, FALSE, FALSE)
    /\ UNCHANGED <<ctxVars, sliceVars, impl, formVars, clockVars, cartVars, totalsVars,
                   pricingVars, pcVars, walletImpl, switchVars, valVars, histVars>>

\* wagmi connects: the user approved in the RainbowKit modal, or a stored
\* connection was restored after mount.
WalletWeb3Connected ==
    /\ EffectsSettled
    /\ ~web3Connected
    /\ web3Intent # "none"
    /\ web3Intent' = "none"
    /\ staysDisconnected' = FALSE
    /\ WalletSet(walletState, TRUE, FALSE, FALSE)
    /\ UNCHANGED <<yoursExt, yoursCheckAwaiting, walletOp>>
    /\ WalletFrame("web3Connected")

\* wagmi's account becomes disconnected: a requested disconnect finished,
\* or the wallet ended the connection.
WalletWeb3Disconnected ==
    /\ EffectsSettled
    /\ web3Connected
    /\ WalletSet(walletState, FALSE, FALSE, FALSE)
    /\ UNCHANGED <<web3Intent, yoursExt, yoursCheckAwaiting, walletOp, staysDisconnected>>
    /\ WalletFrame("web3Disconnected")

\* The web3 sync effect.
WalletWeb3SyncEffect ==
    /\ webEffectDue
    /\ IF web3Connected
       THEN /\ WalletSet(Web3Synced(walletState), web3Connected, TRUE, FALSE)
            /\ UNCHANGED staysDisconnected
       ELSE IF walletState.provider = "rainbowkit"
       THEN /\ WalletSet(initialWalletState, web3Connected, TRUE, FALSE)
            /\ staysDisconnected' = TRUE
       ELSE /\ WalletSet(walletState, web3Connected, TRUE, FALSE)
            /\ UNCHANGED staysDisconnected
    /\ UNCHANGED <<web3Intent, yoursExt, yoursCheckAwaiting, walletOp>>
    /\ WalletFrame("web3SyncEffect")

\* The extension emits signedOut; handleSignedOut resets the state when the
\* active provider is Yours.
WalletYoursSignedOut ==
    /\ EffectsSettled
    /\ yoursExt
    /\ yoursExt' = FALSE
    /\ IF walletState.provider = "yours"
       THEN /\ WalletSet(initialWalletState, web3Connected, FALSE, FALSE)
            /\ staysDisconnected' = TRUE
       ELSE /\ WalletSet(walletState, web3Connected, FALSE, FALSE)
            /\ UNCHANGED staysDisconnected
    /\ UNCHANGED <<web3Intent, yoursCheckAwaiting, walletOp>>
    /\ WalletFrame("signedOut")

\* The Yours check effect up to its first await; the store's hook runs it
\* only without a provider and without a wagmi connection.
WalletCheckYours ==
    /\ yoursCheckDue
    /\ yoursCheckAwaiting' =
         (yoursCheckAwaiting
            \/ walletImpl = "ctx"
            \/ (~web3Connected /\ walletState.provider = "none"))
    /\ WalletSet(walletState, web3Connected, FALSE, TRUE)
    /\ UNCHANGED <<web3Intent, yoursExt, walletOp, staysDisconnected>>
    /\ WalletFrame("checkYours")

\* yoursWallet.isConnected() and the reads after it resolve.
WalletCheckYoursResolve ==
    /\ EffectsSettled
    /\ yoursCheckAwaiting
    /\ yoursCheckAwaiting' = FALSE
    /\ IF yoursExt
       THEN /\ WalletSet(YoursSynced(walletState), web3Connected, FALSE, FALSE)
            /\ staysDisconnected' = FALSE
       ELSE /\ WalletSet(walletState, web3Connected, FALSE, FALSE)
            /\ UNCHANGED staysDisconnected
    /\ UNCHANGED <<web3Intent, yoursExt, walletOp>>
    /\ WalletFrame("checkYoursResolve")

\* connectYours up to its await of yours.connect().
ConnectYoursStart ==
    /\ WalletSet([walletState EXCEPT !.isConnecting = TRUE], web3Connected, FALSE, FALSE)
    /\ walletOp' = [stage |-> "yoursConnect", next |-> "none"]
    /\ staysDisconnected' = FALSE
    /\ UNCHANGED <<web3Intent, yoursExt>>

\* disconnect() up to its first await: wagmi's disconnect is called and not
\* awaited, yours.disconnect() is awaited; the state is reset after it.
DisconnectStart(next) ==
    IF walletState.provider = "yours"
    THEN /\ walletOp' = [stage |-> "yoursDisconnect", next |-> next]
         /\ WalletSet(walletState, web3Connected, FALSE, FALSE)
         /\ UNCHANGED <<web3Intent, yoursExt, staysDisconnected>>
    ELSE /\ walletOp' = [stage |-> "afterDisconnect", next |-> next]
         /\ WalletSet(initialWalletState, web3Connected, FALSE, FALSE)
         /\ staysDisconnected' = TRUE
         /\ UNCHANGED <<web3Intent, yoursExt>>

\* yours.disconnect() settles.  On a rejection the store's disconnect logs
\* and returns, the provider's rethrows to the button's handler.
WalletYoursDisconnectResolve ==
    \E ok \in BOOLEAN :
        /\ EffectsSettled
        /\ walletOp.stage = "yoursDisconnect"
        /\ IF ok
           THEN /\ yoursExt' = FALSE
                /\ WalletSet(initialWalletState, web3Connected, FALSE, FALSE)
                /\ staysDisconnected' = TRUE
                /\ walletOp' = [walletOp EXCEPT !.stage = "afterDisconnect"]
           ELSE /\ WalletSet(walletState, web3Connected, FALSE, FALSE)
                /\ walletOp' = IF walletImpl = "store"
                               THEN [walletOp EXCEPT !.stage = "afterDisconnect"]
                               ELSE IdleOp
                /\ staysDisconnected' = (walletImpl = "store")
                /\ UNCHANGED yoursExt
        /\ UNCHANGED <<web3Intent, yoursCheckAwaiting>>
        /\ WalletFrame("yoursDisconnectResolve")

\* What the button's handler does after its await of disconnect().
WalletContinue ==
    /\ EffectsSettled
    /\ walletOp.stage = "afterDisconnect"
    /\ CASE walletOp.next = "connectYours" -> ConnectYoursStart
         [] walletOp.next = "openModal" ->
              /\ web3Intent' = "modal"
              /\ walletOp' = IdleOp
              /\ WalletSet(walletState, web3Connected, FALSE, FALSE)
              /\ UNCHANGED <<yoursExt, staysDisconnected>>
         [] OTHER ->
              /\ walletOp' = IdleOp
              /\ WalletSet(walletState, web3Connected, FALSE, FALSE)
              /\ UNCHANGED <<web3Intent, yoursExt, staysDisconnected>>
    /\ UNCHANGED yoursCheckAwaiting
    /\ WalletFrame("afterDisconnect")

\* yours.connect() settles: with a key, without one, or with a rejection.
WalletYoursConnectResolve ==
    \E result \in {"key", "nokey", "reject"} :
        /\ EffectsSettled
        /\ walletOp.stage = "yoursConnect"
        /\ walletOp' = IdleOp
        /\ CASE result = "key" ->
                  /\ yoursExt' = TRUE
                  /\ WalletSet(YoursConnected, web3Connected, FALSE, FALSE)
             [] result = "nokey" /\ walletImpl = "store" ->
                  /\ WalletSet(walletState, web3Connected, FALSE, FALSE)
                  /\ UNCHANGED yoursExt
             [] OTHER ->
                  /\ WalletSet([walletState EXCEPT !.isConnecting = FALSE],
                               web3Connected, FALSE, FALSE)
                  /\ UNCHANGED yoursExt
        /\ UNCHANGED <<web3Intent, yoursCheckAwaiting, staysDisconnected>>
        /\ WalletFrame("yoursConnectResolve")

\* WalletConnection.handleYoursConnect
WalletHandleYoursConnect ==
    /\ EffectsSettled
    /\ walletOp.stage = "idle"
    /\ IF walletState.isConnected
       THEN DisconnectStart("connectYours")
       ELSE ConnectYoursStart
    /\ UNCHANGED yoursCheckAwaiting
    /\ WalletFrame("handleYoursConnect")

\* WalletConnection.handleWeb3Connect
WalletHandleWeb3Connect ==
    /\ EffectsSettled
    /\ walletOp.stage = "idle"
    /\ IF walletState.isConnected
       THEN DisconnectStart("openModal")
       ELSE /\ web3Intent' = "modal"
            /\ WalletSet(walletState, web3Connected, FALSE, FALSE)
            /\ UNCHANGED <<yoursExt, walletOp, staysDisconnected>>
    /\ UNCHANGED yoursCheckAwaiting
    /\ WalletFrame("handleWeb3Connect")

\* WalletConnection.handleDisconnect, offered while connected with an address
WalletHandleDisconnect ==
    /\ EffectsSettled
    /\ walletOp.stage = "idle"
    /\ walletState.isConnected
    /\ walletState.address # "none"
    /\ DisconnectStart("done")
    /\ UNCHANGED yoursCheckAwaiting
    /\ WalletFrame("handleDisconnect")

\* The wallet of a run that never shows the wallet buttons.
InitWalletIdle ==
    /\ walletImpl = "store"
    /\ walletState = initialWalletState
    /\ web3Connected = FALSE
    /\ web3Intent = "none"
    /\ yoursExt = FALSE
    /\ webEffectDue = FALSE
    /\ yoursCheckDue = FALSE
    /\ yoursCheckAwaiting = FALSE
    /\ walletOp = IdleOp
    /\ staysDisconnected = FALSE

(***************************************************************************)
(* CartCheckoutModal (part_000): the cart checkout's step, its wallet      *)
(* switch and its two auto-advance effects.  The modal reads the store's   *)
(* wallet; useCheckout().walletAddress mirrors WalletProvider's state.     *)
(***************************************************************************)

SwitchFrame(op) ==
    /\ ev' = Event(op, "switch", FALSE, FALSE, FALSE)
    /\ UNCHANGED <<ctxVars, sliceVars, impl, formVars, clockVars, cartVars, totalsVars,
                   pricingVars, pcVars, walletImpl, valVars, histVars>>

\* The wallet variables a step of the cart checkout leaves alone.
StoreWalletRest ==
    UNCHANGED <<walletState, web3Connected, web3Intent, yoursExt, webEffectDue,
                yoursCheckDue, yoursCheckAwaiting, walletOp, staysDisconnected>>

\* CartCheckoutContent.handleProceedToCheckout
SwitchProceedToCheckout ==
    /\ EffectsSettled
    /\ swStep = "cart"
    /\ swStep' = IF walletAddress = "none" THEN "connecting" ELSE "confirming"
    /\ UNCHANGED <<isSwitchingWallet, ctxWallet, walletAddress, switchFrom>>
    /\ StoreWalletRest
    /\ SwitchFrame("handleProceedToCheckout")

\* WalletConnection.handleWeb3Connect while the wallet choice is shown
SwitchOpenConnectModal ==
    /\ EffectsSettled
    /\ swStep = "connecting"
    /\ ~ctxWallet.isConnected
    /\ web3Intent' = "modal"
    /\ UNCHANGED <<walletState, web3Connected, yoursExt, webEffectDue, yoursCheckDue,
                   yoursCheckAwaiting, walletOp, staysDisconnected>>
    /\ UNCHANGED switchVars
    /\ SwitchFrame("openConnectModal")

\* WalletConnection.handleYoursConnect while the wallet choice is shown; the
\* user approves and WalletProvider stores the connection.
SwitchCtxConnectYours ==
    /\ EffectsSettled
    /\ swStep = "connecting"
    /\ ~ctxWallet.isConnected
    /\ ctxWallet' = YoursConnected
    /\ yoursExt' = TRUE
    /\ staysDisconnected' = FALSE
    /\ UNCHANGED <<walletState, web3Connected, web3Intent, webEffectDue, yoursCheckDue,
                   yoursCheckAwaiting, walletOp>>
    /\ UNCHANGED <<swStep, isSwitchingWallet, walletAddress, switchFrom>>
    /\ SwitchFrame("ctxConnectYours")

\* CartCheckoutModalContent.handleSwitchWallet, offered by the wallet badge
SwitchHandleSwitchWallet ==
    /\ EffectsSettled
    /\ walletState.isConnected
    /\ swStep \in {"cart", "confirming"}
    /\ walletOp.stage = "idle"
    /\ isSwitchingWallet' = TRUE
    /\ swStep' = "connecting"
    /\ switchFrom' = walletState.provider
    /\ DisconnectStart("done")
    /\ UNCHANGED <<yoursCheckAwaiting, ctxWallet, walletAddress>>
    /\ SwitchFrame("handleSwitchWallet")

\* The web3 sync effect of WalletProvider
SwitchCtxWeb3Sync ==
    /\ swStep # "unmounted"
    /\ CtxWeb3SyncCond
    /\ ctxWallet' = IF web3Connected THEN CtxWeb3Synced ELSE initialWalletState
    /\ UNCHANGED <<swStep, isSwitchingWallet, walletAddress, switchFrom>>
    /\ StoreWalletRest
    /\ SwitchFrame("ctxWeb3Sync")

\* CheckoutProvider's wallet effect
SwitchMirror ==
    /\ swStep # "unmounted"
    /\ walletAddress # Mirrored
    /\ walletAddress' = Mirrored
    /\ UNCHANGED <<swStep, isSwitchingWallet, ctxWallet, switchFrom>>
    /\ StoreWalletRest
    /\ SwitchFrame("mirror")

\* The effect of CartCheckoutModalContent: advance, then clear the flag.
SwitchAutoTransition ==
    /\ swStep # "unmounted"
    /\ AutoTransitionCond \/ FlagResetCond
    /\ swStep' = IF AutoTransitionCond THEN "confirming" ELSE swStep
    /\ isSwitchingWallet' = IF FlagResetCond THEN FALSE ELSE isSwitchingWallet
    /\ switchFrom' = IF AutoTransitionCond THEN "none" ELSE switchFrom
    /\ UNCHANGED <<ctxWallet, walletAddress>>
    /\ StoreWalletRest
    /\ SwitchFrame("autoTransition")

\* The effect of CartCheckoutContent
SwitchAutoAdvance ==
    /\ swStep # "unmounted"
    /\ AutoAdvanceCond
    /\ swStep' = "confirming"
    /\ switchFrom' = "none"
    /\ UNCHANGED <<isSwitchingWallet, ctxWallet, walletAddress>>
    /\ StoreWalletRest
    /\ SwitchFrame("autoAdvance")

\* The cart checkout of a run that never opens it.
InitSwitchIdle ==
    /\ swStep = "unmounted"
    /\ isSwitchingWallet = FALSE
    /\ ctxWallet = initialWalletState
    /\ walletAddress = "none"
    /\ switchFrom = "none"

(***************************************************************************)
(* Validation on proceed: EcommerceCheckout.handleProceed (part_011) and   *)
(* CartView.handleProceedToCheckout, with the validators of lib.  Text is  *)
(* a sequence of one-character strings.                                    *)
(***************************************************************************)

\* [^\s@] of the e-mail pattern
EmailChar(c) == c \notin {" ", "@"}

\* /^[^\s@]+@[^\s@]+\.[^\s@]+$/.test(email)
emailRegex(email) ==
    \E i \in 1..Len(email) : \E j \in 1..Len(email) :
        /\ 1 < i /\ i + 1 < j /\ j < Len(email)
        /\ email[i] = "@"
        /\ email[j] = "."
        /\ \A k \in 1..Len(email) : k # i => EmailChar(email[k])

RECURSIVE TrimStart(_)
TrimStart(t) == IF t # <<>> /\ Head(t) = " " THEN TrimStart(Tail(t)) ELSE t

RECURSIVE TrimEnd(_)
TrimEnd(t) ==
    IF t # <<>> /\ t[Len(t)] = " " THEN TrimEnd(SubSeq(t, 1, Len(t) - 1)) ELSE t

\* String.prototype.trim
Trim(t) == TrimEnd(TrimStart(t))

\* validateEmail: the error, "" for none
validateEmail(email) ==
    IF email = <<>> \/ Trim(email) = <<>> THEN "Email is required"
    ELSE IF ~emailRegex(email) THEN "Please enter a valid email address"
    ELSE ""

MinPhoneLen == 7

\* Mutant: the phone test accepts one character fewer.
PhoneInvalid_shorter(phone) == phone = <<>> \/ Len(Trim(phone)) < MinPhoneLen - 1

\* !contact.phone || contact.phone.trim().length < 7
PhoneInvalid(phone) == phone = <<>> \/ Len(Trim(phone)) < MinPhoneLen

ShippingKeys ==
    {"firstName", "lastName", "address1", "city", "state", "postalCode", "country"}

\* validateShippingAddress: the keys of the errors it returns
validateShippingAddress(ship) ==
    IF ~ship.defined THEN ShippingKeys
    ELSE {k \in ShippingKeys : ship.fields[k] = <<>> \/ Trim(ship.fields[k]) = <<>>}

\* validateFields for the one required custom field of the product, size
validateFields(value) == IF value = <<>> THEN {"size"} ELSE {}

\* The form data of the checkout context read as a shipping address: the
\* object exists and holds none of the seven keys (the address is under its
\* key shipping).
FormDataAsShipping == [defined |-> TRUE, fields |-> [k \in ShippingKeys |-> <<>>]]

\* What the proceed handler passes to validateShippingAddress: the context
\* version of CartView passes formData, the store versions pass the address.
ShippingArgument(view) ==
    IF view = "cart" /\ impl = "ctx" THEN FormDataAsShipping ELSE userShipping

\* The keys of the error map the proceed handlers build: customFields are
\* validated by the product view only.
ProceedErrors(view) ==
    (IF collect.email /\ validateEmail(userContact.email) # "" THEN {"email"} ELSE {})
    \cup (IF collect.phone /\ PhoneInvalid(userContact.phone) THEN {"phone"} ELSE {})
    \cup (IF view = "product" THEN validateFields(sizeValue) ELSE {})
    \cup (IF collect.shipping THEN validateShippingAddress(ShippingArgument(view)) ELSE {})

ValFrame(op) ==
    /\ ev' = Event(op, "validate", FALSE, FALSE, FALSE)
    /\ UNCHANGED <<ctxVars, sliceVars, impl, formVars, clockVars, cartVars, totalsVars,
                   pricingVars, pcVars, walletVars, switchVars, histVars>>

\* EcommerceCheckout.handleProceed, then MneeCheckout.handleProceedToPayment:
\* without a wallet the wallet modal opens and the step stays.
ValHandleProceed ==
    /\ valView = "product"
    /\ valStep = "collecting"
    /\ LET errs == ProceedErrors("product")
       IN  /\ valErrors' = errs
           /\ valStep' = IF errs = {} /\ valHasWallet THEN "confirming" ELSE valStep
    /\ UNCHANGED <<userContact, userShipping, collect, sizeValue, valView, valHasWallet>>
    /\ ValFrame("handleProceed")

\* CartView.handleProceedToCheckout, then CartCheckoutContent's handler
ValHandleProceedToCheckout ==
    /\ valView = "cart"
    /\ valStep = "cart"
    /\ LET errs == ProceedErrors("cart")
       IN  /\ valErrors' = errs
           /\ valStep' = IF errs # {} THEN valStep
                         ELSE IF valHasWallet THEN "confirming" ELSE "connecting"
    /\ UNCHANGED <<userContact, userShipping, collect, sizeValue, valView, valHasWallet>>
    /\ ValFrame("handleProceedToCheckout")

Chars(n, c) == [i \in 1..n |-> c]

\* E-mail texts: none, blank, and well- and ill-formed addresses.
Emails ==
    {<<>>, <<" ">>, <<"a", "@", "a">>, <<"a", "@", "a", ".", "a">>,
     <<"a", "@", ".", "a">>, <<"a", " ", "@", "a", ".", "a">>,
     <<"a", "@", "a", ".", "a", " ">>, <<"a", "@", "a", ".">>}

\* Phone texts around the length limit, with and without padding.
Phones ==
    {<<>>, Chars(MinPhoneLen - 1, "1"), Chars(MinPhoneLen, "1"),
     <<" ">> \o Chars(MinPhoneLen - 2, "1") \o <<" ">>, Chars(MinPhoneLen, " "),
     <<" ">> \o Chars(MinPhoneLen, "1")}

NoShipping == [defined |-> FALSE, fields |-> [k \in ShippingKeys |-> <<>>]]

\* Shipping addresses: none, complete, one field missing or blank, all empty.
Shippings ==
    {NoShipping}
    \cup {[defined |-> TRUE, fields |-> [k \in ShippingKeys |-> IF k = m THEN v ELSE <<"x">>]] :
             m \in ShippingKeys, v \in {<<>>, <<" ">>, <<"x">>}}
    \cup {[defined |-> TRUE, fields |-> [k \in ShippingKeys |-> <<>>]]}

\* The user slice's setEmail while the form is shown
ValSetEmail ==
    /\ valStep \in {"collecting", "cart"}
    /\ \E email \in Emails :
        /\ email # userContact.email
        /\ userContact' = [userContact EXCEPT !.email = email]
    /\ UNCHANGED <<userShipping, collect, sizeValue, valView, valStep, valErrors, valHasWallet>>
    /\ ValFrame("setEmail")

\* The user slice's setPhone while the form is shown
ValSetPhone ==
    /\ valStep \in {"collecting", "cart"}
    /\ \E phone \in Phones :
        /\ phone # userContact.phone
        /\ userContact' = [userContact EXCEPT !.phone = phone]
    /\ UNCHANGED <<userShipping, collect, sizeValue, valView, valStep, valErrors, valHasWallet>>
    /\ ValFrame("setPhone")

\* The validation state of a run that shows no form.
InitValIdle ==
    /\ userContact = [email |-> <<>>, phone |-> <<>>]
    /\ userShipping = NoShipping
    /\ collect = [email |-> FALSE, phone |-> FALSE, shipping |-> FALSE]
    /\ sizeValue = <<>>
    /\ valView = "none"
    /\ valStep = "none"
    /\ valErrors = {}
    /\ valHasWallet = FALSE

\* No request has been issued.
InitHist ==
    /\ sessionFor = [id \in SessionIds |-> [provider |-> "none", token |-> "none"]]
    /\ clearMark = 1

InitExtraIdle == InitWalletIdle /\ InitSwitchIdle /\ InitValIdle /\ InitHist

vars == <<ctxVars, sliceVars, ev, impl, formVars, otherVars, pcVars>>


(***************************************************************************)
(* MneeCheckout and PaymentConfirmation                                    *)
(***************************************************************************)

\* Bound: PaymentConfirmation instances one run may mount.
MaxMounts == 2

\* Bound: transfers one run may dispatch to a wallet.
MaxTx == 1

\* Bound: completeSession / onSuccess invocations counted per hash.
MaxCalls == 2

NoTx == 0

TxIds == 1..MaxTx

\* The steps for which renderCheckoutContent returns <PaymentConfirmation>.
PaymentSteps == {"confirming", "processing", "complete", "error"}

\* PaymentConfirmation is in the tree: the modal shows its children only
\* while open, and renderCheckoutContent picks it by step.
Mounted == isOpen /\ step \in PaymentSteps

\* The useState initialisers and the idle wagmi hooks of a new instance.
Fresh(provider) ==
    [showTokenSelector |-> provider # "yours",
     selectedToken |-> "none",
     isProcessing |-> FALSE,
     txHash |-> NoTx,
     errorMessage |-> FALSE,
     isCreatingSession |-> FALSE,
     isPreparingPayment |-> FALSE,
     hash |-> NoTx,
     writeError |-> NoMsg,
     isPending |-> FALSE,
     isConfirmed |-> FALSE]

Unmounted == Fresh("none")

NoTransfer ==
    [kind |-> "none", stage |-> "none", inst |-> 0, session |-> NoSession,
     completeCalls |-> 0, completeOk |-> FALSE,
     successCalls |-> 0, successDone |-> FALSE,
     pollInFlight |-> 0, pollTimers |-> 0, pollDelay |-> 0,
     backend |-> "unknown"]

InitPc ==
    /\ isOpen = FALSE
    /\ walletProvider \in {"none", "yours", "evm"}
    /\ comp = Unmounted
    /\ inst = 0
    /\ processedTxHashes = [i \in 1..MaxMounts |-> {}]
    /\ tx = [t \in TxIds |-> NoTransfer]
    /\ nextTx = 1
    /\ completedBy = NoTx

\* The commit of a render in which step, the modal and the wallet become
\* s, o and p: a mounted instance keeps its state c, a newly mounted one
\* starts from its initialisers, an unmounted one loses its state.
Commit(s, o, p, c) ==
    /\ step' = s
    /\ isOpen' = o
    /\ walletProvider' = p
    /\ IF o /\ s \in PaymentSteps
       THEN IF Mounted
            THEN comp' = c /\ inst' = inst
            ELSE /\ inst < MaxMounts
                 /\ inst' = inst + 1
                 /\ comp' = Fresh(p)
       ELSE comp' = Unmounted /\ inst' = inst

\* An async closure of instance i applies its local setState calls only
\* while that instance is still the mounted one.
Live(i) == Mounted /\ i = inst

Local(i, c) == IF Live(i) THEN c ELSE comp

(***************************************************************************)
(* Error classification (lib/payment.ts, handlePayment, writeError effect) *)
(***************************************************************************)

Includes(m, sub) == sub \in (m.head \cup m.tail)

Slice100(m) == Msg(m.head, {})

\* parsePaymentError, applied to error.message.
parsePaymentError(m) ==
    IF Includes(m, "User rejected") \/ Includes(m, "User denied") \/ Includes(m, "user rejected")
    THEN Msg({"cancelled"}, {})          \* "Transaction was cancelled"
    ELSE IF Includes(m, "insufficient funds") \/ Includes(m, "insufficient balance")
    THEN Msg({}, {})                     \* "Insufficient balance to complete transaction"
    ELSE IF Includes(m, "gas required exceeds")
    THEN Msg({}, {})                     \* "Transaction would likely fail - ..."
    ELSE IF Includes(m, "network") \/ Includes(m, "connection")
    THEN Msg({"connection"}, {})         \* "Network error - please check your connection ..."
    ELSE IF Includes(m, "execution reverted")
    THEN Msg({"rejected"}, {})           \* "Transaction failed - the contract rejected the transfer"
    ELSE Slice100(m)

\* const isUserRejection = errorMsg.includes("cancelled") || ...
isUserRejection(errorMsg) ==
    Includes(errorMsg, "cancelled") \/ Includes(errorMsg, "rejected") \/ Includes(errorMsg, "denied")

\* Messages a wallet, the backend or the merchant callback may fail with.
UserRejectedMsg == Msg({"User rejected", "rejected"}, {})

ExecutionRevertedMsg == Msg({"execution reverted"}, {})

NetworkMsg == Msg({"network"}, {})

\* A long message whose word "denied" lies beyond the first 100 characters.
LongMsg == Msg({}, {"denied"})

InsufficientMsg == Msg({"insufficient funds"}, {})

Messages == {UserRejectedMsg, ExecutionRevertedMsg, NetworkMsg, InsufficientMsg, LongMsg}

\* The provider's message says the human declined in the wallet UI.
UserDeclined(m) ==
    Includes(m, "User rejected") \/ Includes(m, "User denied") \/ Includes(m, "user rejected")

(***************************************************************************)
(* PaymentConfirmation: what is on screen, and its effects                 *)
(***************************************************************************)

\* The render branches of PaymentConfirmation, in the order the code tests them.
Screen ==
    IF ~Mounted THEN "none"
    ELSE IF step = "complete" /\ comp.txHash # NoTx THEN "complete"
    ELSE IF step = "error" THEN "error"
    ELSE IF walletProvider = "none" THEN "walletRequired"
    ELSE IF comp.showTokenSelector /\ walletProvider # "yours" THEN "tokenSelector"
    ELSE IF walletProvider = "yours" /\ session = NoSession /\ comp.isCreatingSession
    THEN "preparing"
    ELSE IF step = "processing" THEN "processing"
    ELSE "confirm"

\* Condition of the auto-create-session effect (Yours wallet).
AutoCreateCond ==
    /\ Mounted
    /\ walletProvider = "yours"
    /\ session = NoSession
    /\ step = "confirming"
    /\ ~comp.isCreatingSession

\* Condition of the writeError effect.
WriteErrorCond ==
    /\ Mounted
    /\ comp.writeError # NoMsg
    /\ step = "processing"

\* The early return of the confirmation effect does not apply.
ConfirmCond ==
    /\ Mounted
    /\ comp.isConfirmed
    /\ comp.hash # NoTx
    /\ comp.selectedToken # "none"
    /\ session # NoSession

\* Mutant: the processed-hash set is never consulted.
ProcessedHas_never(i, h) == FALSE

\* processedTxHashes.current.has(h), in instance i.
ProcessedHas(i, h) == i \in DOMAIN processedTxHashes /\ h \in processedTxHashes[i]

\* An effect is due: React runs it after the commit, before any other event.
EffectPending ==
    \/ AutoCreateCond
    \/ WriteErrorCond
    \/ (ConfirmCond /\ ~ProcessedHas(inst, comp.hash))

Idle == ~EffectPending

\* The arguments a createSession call of the component carries: the automatic
\* effect asks for BSV / MNEE, handleProceedToPayment for the selected token
\* on its chain.
CreatedFor ==
    [provider |-> walletProvider,
     token |-> IF walletProvider = "yours" THEN "MNEE" ELSE comp.selectedToken]

\* What a step of MneeCheckout or PaymentConfirmation leaves alone; a step
\* that issues a createSession request records what it asked for.
PcFrame ==
    /\ UNCHANGED <<sliceVars, impl, formVars, clockVars, cartVars, totalsVars, pricingVars,
                   walletVars, switchVars, valVars, ctxDisturbed>>
    /\ sessionFor' = IF ev'.net /\ nextSession \in SessionIds
                     THEN [sessionFor EXCEPT ![nextSession] = CreatedFor]
                     ELSE sessionFor
    /\ UNCHANGED clearMark

CtxRest == <<session, errors, isCreatingSessionRef, requests, nextSession>>

TxRest == <<processedTxHashes, tx, nextTx, completedBy>>

(***************************************************************************)
(* MneeCheckout: modal, wallet, proceed                                    *)
(***************************************************************************)

\* handleOpenModal
OpenModal ==
    /\ Idle
    /\ ~isOpen
    /\ Commit("collecting", TRUE, walletProvider, comp)
    /\ ev' = PcEvent("ui", FALSE, FALSE, NoMsg)
    /\ UNCHANGED <<CtxRest, TxRest>> /\ PcFrame

\* handleCloseModal
CloseModal ==
    /\ Idle
    /\ isOpen
    /\ Commit(step, FALSE, walletProvider, comp)
    /\ ev' = PcEvent("ui", FALSE, FALSE, NoMsg)
    /\ UNCHANGED <<CtxRest, TxRest>> /\ PcFrame

\* A wallet connects through the wallet selection modal; the provider's
\* sync effect copies it into the checkout state.
ConnectWallet ==
    /\ Idle
    /\ isOpen
    /\ walletProvider = "none"
    /\ \E p \in {"yours", "evm"} : Commit(step, isOpen, p, comp)
    /\ ev' = PcEvent("ui", FALSE, FALSE, NoMsg)
    /\ UNCHANGED <<CtxRest, TxRest>> /\ PcFrame

\* Disconnect from the WalletStatusBadge, shown unless complete or processing.
DisconnectWallet ==
    /\ Idle
    /\ isOpen
    /\ walletProvider # "none"
    /\ step \notin {"complete", "processing"}
    /\ Commit(step, isOpen, "none", comp)
    /\ ev' = PcEvent("ui", FALSE, FALSE, NoMsg)
    /\ UNCHANGED <<CtxRest, TxRest>> /\ PcFrame

\* MneeCheckout.handleProceedToPayment with a wallet connected.
ProceedToPayment ==
    /\ Idle
    /\ isOpen
    /\ step \notin PaymentSteps
    /\ walletProvider # "none"
    /\ Commit("confirming", isOpen, walletProvider, comp)
    /\ ev' = PcEvent("ui", FALSE, FALSE, NoMsg)
    /\ UNCHANGED <<CtxRest, TxRest>> /\ PcFrame

(***************************************************************************)
(* PaymentConfirmation: buttons                                            *)
(***************************************************************************)

\* "Done" on the success screen: onComplete closes the modal.
OnComplete ==
    /\ Idle
    /\ Screen = "complete"
    /\ Commit(step, FALSE, walletProvider, comp)
    /\ ev' = PcEvent("ui", FALSE, FALSE, NoMsg)
    /\ UNCHANGED <<CtxRest, TxRest>> /\ PcFrame

\* "Try Again" on the error screen.
TryAgain ==
    /\ Idle
    /\ Screen = "error"
    /\ Commit("confirming", isOpen, walletProvider,
              [comp EXCEPT !.showTokenSelector = (walletProvider # "yours"),
                           !.errorMessage = FALSE])
    /\ ev' = PcEvent("ui", FALSE, FALSE, NoMsg)
    /\ UNCHANGED <<CtxRest, TxRest>> /\ PcFrame

\* "Connect Wallet" on the wallet-required screen.
WalletRequiredConnect ==
    /\ Idle
    /\ Screen = "walletRequired"
    /\ Commit("connecting", isOpen, walletProvider, comp)
    /\ ev' = PcEvent("ui", FALSE, FALSE, NoMsg)
    /\ UNCHANGED <<CtxRest, TxRest>> /\ PcFrame

\* handleTokenSelect
HandleTokenSelect ==
    /\ Idle
    /\ Screen = "tokenSelector"
    /\ comp.selectedToken = "none"
    /\ Commit(step, isOpen, walletProvider, [comp EXCEPT !.selectedToken = "USDC"])
    /\ ev' = PcEvent("ui", FALSE, FALSE, NoMsg)
    /\ UNCHANGED <<CtxRest, TxRest>> /\ PcFrame

\* "Back" on the token selector.
TokenSelectorBack ==
    /\ Idle
    /\ Screen = "tokenSelector"
    /\ Commit("collecting", isOpen, walletProvider, comp)
    /\ ev' = PcEvent("ui", FALSE, FALSE, NoMsg)
    /\ UNCHANGED <<CtxRest, TxRest>> /\ PcFrame

\* handleProceedToPayment ("Continue to Payment"), up to its await; when the
\* context's guard skips the call the await resolves at once and the handler
\* runs on to setStep("confirming").
HandleProceedToPayment ==
    /\ Idle
    /\ Screen = "tokenSelector"
    /\ comp.selectedToken # "none"
    /\ ~comp.isPreparingPayment
    /\ CtxCreateSessionCall("proceed")
    /\ IF CtxGuardSkips
       THEN Commit("confirming", isOpen, walletProvider,
                   [comp EXCEPT !.showTokenSelector = FALSE, !.isPreparingPayment = FALSE])
       ELSE Commit(step, isOpen, walletProvider, [comp EXCEPT !.isPreparingPayment = TRUE])
    /\ ev' = PcEvent("handleProceedToPayment", ~CtxGuardSkips, FALSE, NoMsg)
    /\ UNCHANGED TxRest /\ PcFrame

\* handleProceedToPayment after its await.
ProceedResolve ==
    /\ Idle
    /\ \E r \in requests, ok \in BOOLEAN :
        /\ r.caller = "proceed"
        /\ CtxCreateSessionSettle(r, ok)
        /\ IF ok
           THEN Commit("confirming", isOpen, walletProvider,
                       Local(r.inst, [comp EXCEPT !.showTokenSelector = FALSE,
                                                  !.isPreparingPayment = FALSE]))
           ELSE Commit("error", isOpen, walletProvider,
                       Local(r.inst, [comp EXCEPT !.errorMessage = TRUE,
                                                  !.isPreparingPayment = FALSE]))
        /\ ev' = PcEvent("handleProceedToPayment.settle", FALSE, ~ok, NoMsg)
    /\ UNCHANGED TxRest /\ PcFrame

\* The auto-create-session effect (Yours wallet), up to its await.
AutoCreateEffect ==
    /\ AutoCreateCond
    /\ CtxCreateSessionCall("auto")
    /\ Commit(step, isOpen, walletProvider, [comp EXCEPT !.isCreatingSession = TRUE])
    /\ ev' = PcEvent("autoCreateSession", ~CtxGuardSkips, FALSE, NoMsg)
    /\ UNCHANGED TxRest /\ PcFrame

\* The auto-create-session effect after its await.
AutoResolve ==
    /\ Idle
    /\ \E r \in requests, ok \in BOOLEAN :
        /\ r.caller = "auto"
        /\ CtxCreateSessionSettle(r, ok)
        /\ IF ok
           THEN Commit(step, isOpen, walletProvider, comp)
           ELSE Commit("error", isOpen, walletProvider,
                       Local(r.inst, [comp EXCEPT !.errorMessage = TRUE,
                                                  !.isCreatingSession = FALSE]))
        /\ ev' = PcEvent("autoCreateSession.settle", FALSE, ~ok, NoMsg)
    /\ UNCHANGED TxRest /\ PcFrame

\* "Back" on the confirmation screen.
ConfirmBack ==
    /\ Idle
    /\ Screen = "confirm"
    /\ ~comp.isProcessing /\ ~comp.isPending
    /\ IF walletProvider = "yours"
       THEN Commit("collecting", isOpen, walletProvider, comp)
       ELSE Commit(step, isOpen, walletProvider,
                   [comp EXCEPT !.showTokenSelector = TRUE, !.errorMessage = FALSE])
    /\ ev' = PcEvent("ui", FALSE, FALSE, NoMsg)
    /\ UNCHANGED <<CtxRest, TxRest>> /\ PcFrame

(***************************************************************************)
(* PaymentConfirmation: handlePayment and what follows a transfer          *)
(***************************************************************************)

\* Fixed delay between confirmation polls, in milliseconds.
PollDelayMs == 3000

\* Mutant: an unsuccessful poll schedules two timers.
PollReschedule_twice == 1 + 1

\* Timers one unsuccessful poll schedules.
PollReschedule == 1

\* useWriteContract state after writeContract(...) is called.
WritePending(c) ==
    [c EXCEPT !.isPending = TRUE, !.writeError = NoMsg, !.hash = NoTx, !.isConfirmed = FALSE]

\* handlePayment ("Confirm & Pay"), up to its first await.
HandlePayment ==
    /\ Idle
    /\ Screen = "confirm"
    /\ ~comp.isProcessing /\ ~comp.isPending
    /\ session # NoSession
    /\ nextTx <= MaxTx
    /\ LET c1 == [comp EXCEPT !.isProcessing = TRUE, !.errorMessage = FALSE]
           t == nextTx
           start(kind, stage) ==
               [tx EXCEPT ![t] = [NoTransfer EXCEPT !.kind = kind, !.stage = stage,
                                                    !.inst = inst, !.session = session]]
       IN IF walletProvider = "yours"
          THEN /\ Commit("processing", isOpen, walletProvider, c1)
               /\ tx' = start("yours", "sendMNEE")
               /\ nextTx' = nextTx + 1
               /\ ev' = PcEvent("handlePayment", FALSE, FALSE, NoMsg)
          ELSE IF comp.selectedToken = "none"
          THEN /\ Commit("processing", isOpen, walletProvider, c1)
               /\ UNCHANGED <<tx, nextTx>>
               /\ ev' = PcEvent("handlePayment", FALSE, TRUE, NoMsg)
          ELSE \E needSwitch \in BOOLEAN :
               /\ IF needSwitch
                  THEN /\ Commit("processing", isOpen, walletProvider, c1)
                       /\ tx' = start("evm", "switching")
                  ELSE /\ Commit("processing", isOpen, walletProvider, WritePending(c1))
                       /\ tx' = start("evm", "signing")
               /\ nextTx' = nextTx + 1
               /\ ev' = PcEvent("handlePayment", FALSE, FALSE, NoMsg)
    /\ UNCHANGED <<CtxRest, processedTxHashes, completedBy>> /\ PcFrame

\* handlePayment for a transfer beyond the MaxTx the model follows: the
\* transfer is handed to the wallet and its outcome is left open.
HandlePaymentAgain ==
    /\ Idle
    /\ Screen = "confirm"
    /\ ~comp.isProcessing /\ ~comp.isPending
    /\ session # NoSession
    /\ nextTx > MaxTx
    /\ walletProvider = "yours" \/ comp.selectedToken # "none"
    /\ LET c1 == [comp EXCEPT !.isProcessing = TRUE, !.errorMessage = FALSE]
       IN  Commit("processing", isOpen, walletProvider,
                  IF walletProvider = "yours" THEN c1 ELSE WritePending(c1))
    /\ ev' = PcEvent("handlePayment.again", FALSE, FALSE, NoMsg)
    /\ UNCHANGED <<CtxRest, TxRest>> /\ PcFrame

\* handlePayment after switchChain and the one-second wait: writeContract.
SwitchElapsed ==
    /\ Idle
    /\ \E t \in TxIds :
        /\ tx[t].stage = "switching"
        /\ IF Live(tx[t].inst)
           THEN /\ Commit(step, isOpen, walletProvider, WritePending(comp))
                /\ tx' = [tx EXCEPT ![t].stage = "signing"]
           ELSE /\ Commit(step, isOpen, walletProvider, comp)
                /\ tx' = [tx EXCEPT ![t].stage = "abandoned"]
    /\ ev' = PcEvent("env", FALSE, FALSE, NoMsg)
    /\ UNCHANGED <<CtxRest, processedTxHashes, nextTx, completedBy>> /\ PcFrame

\* The wallet returns the transaction hash; the hash effect copies it to txHash.
WalletSigned ==
    /\ Idle
    /\ \E t \in TxIds :
        /\ tx[t].stage = "signing"
        /\ IF Live(tx[t].inst)
           THEN /\ Commit(step, isOpen, walletProvider,
                          [comp EXCEPT !.hash = t, !.txHash = t, !.isPending = FALSE])
                /\ tx' = [tx EXCEPT ![t].stage = "mining"]
           ELSE /\ Commit(step, isOpen, walletProvider, comp)
                /\ tx' = [tx EXCEPT ![t].stage = "abandoned"]
    /\ ev' = PcEvent("env", FALSE, FALSE, NoMsg)
    /\ UNCHANGED <<CtxRest, processedTxHashes, nextTx, completedBy>> /\ PcFrame

\* The wallet fails the write: useWriteContract reports writeError.
WalletFailed ==
    /\ Idle
    /\ \E t \in TxIds, m \in Messages :
        /\ tx[t].stage = "signing"
        /\ Commit(step, isOpen, walletProvider,
                  Local(tx[t].inst, [comp EXCEPT !.writeError = m, !.isPending = FALSE]))
        /\ tx' = [tx EXCEPT ![t].stage = "failed"]
    /\ ev' = PcEvent("env", FALSE, FALSE, NoMsg)
    /\ UNCHANGED <<CtxRest, processedTxHashes, nextTx, completedBy>> /\ PcFrame

\* useWaitForTransactionReceipt reports success for the current hash.
ReceiptConfirmed ==
    /\ Idle
    /\ Mounted
    /\ comp.hash # NoTx
    /\ ~comp.isConfirmed
    /\ Commit(step, isOpen, walletProvider, [comp EXCEPT !.isConfirmed = TRUE])
    /\ ev' = PcEvent("env", FALSE, FALSE, NoMsg)
    /\ UNCHANGED <<CtxRest, TxRest>> /\ PcFrame

\* The non-rejection branch: setErrorMessage, setStep("error"), onError.
FatalBranch(i) ==
    Commit("error", isOpen, walletProvider,
           Local(i, [comp EXCEPT !.errorMessage = TRUE, !.isProcessing = FALSE]))

\* Mutant: a user rejection is handled like every other failure.
RejectedBranch_fatal(i, selector) == FatalBranch(i)

\* The user-rejection branch shared by handlePayment's catch and the
\* writeError effect; selector is what setShowTokenSelector receives.
RejectedBranch(i, selector) ==
    Commit("confirming", isOpen, walletProvider,
           Local(i, [comp EXCEPT !.showTokenSelector = selector,
                                 !.errorMessage = FALSE,
                                 !.isProcessing = FALSE]))

\* The writeError effect.
WriteErrorEffect ==
    /\ WriteErrorCond
    /\ IF isUserRejection(parsePaymentError(comp.writeError))
       THEN /\ RejectedBranch(inst, TRUE)
            /\ ev' = PcEvent("writeErrorEffect", FALSE, FALSE, comp.writeError)
       ELSE /\ FatalBranch(inst)
            /\ ev' = PcEvent("writeErrorEffect", FALSE, TRUE, comp.writeError)
    /\ UNCHANGED <<CtxRest, TxRest>> /\ PcFrame

\* The catch block of handlePayment, for the Yours closure of instance i
\* (its walletProvider is "yours", so the selector stays hidden).
YoursCatch(op, i, m) ==
    IF isUserRejection(parsePaymentError(m))
    THEN /\ RejectedBranch(i, FALSE)
         /\ ev' = PcEvent(op, FALSE, FALSE, m)
    ELSE /\ FatalBranch(i)
         /\ ev' = PcEvent(op, FALSE, TRUE, m)

\* The catch block of the confirmation effect.
EvmCatch(op, i, m) ==
    /\ FatalBranch(i)
    /\ ev' = PcEvent(op, FALSE, TRUE, m)

\* wallet.sendMNEE settles: a txid (completeSession is called), no txid
\* (treated as cancelled), or it throws.
SendMNEEResolve ==
    /\ Idle
    /\ \E t \in TxIds :
        /\ tx[t].stage = "sendMNEE"
        /\ \/ /\ tx' = [tx EXCEPT ![t].stage = "completing",
                                  ![t].completeCalls = @ + 1]
              /\ Commit(step, isOpen, walletProvider, comp)
              /\ ev' = PcEvent("sendMNEE.txid", FALSE, FALSE, NoMsg)
           \/ /\ tx' = [tx EXCEPT ![t].stage = "cancelled"]
              /\ Commit("confirming", isOpen, walletProvider,
                        Local(tx[t].inst, [comp EXCEPT !.isProcessing = FALSE]))
              /\ ev' = PcEvent("sendMNEE.noTxid", FALSE, FALSE, NoMsg)
           \/ \E m \in Messages :
              /\ tx' = [tx EXCEPT ![t].stage = "failed"]
              /\ YoursCatch("sendMNEE.throw", tx[t].inst, m)
    /\ UNCHANGED <<CtxRest, processedTxHashes, nextTx, completedBy>> /\ PcFrame

\* The confirmation effect (EVM): returns if the hash was processed,
\* otherwise records it and calls completeSession.
ConfirmEffect ==
    /\ ConfirmCond
    /\ LET h == comp.hash
       IN IF ProcessedHas(inst, h)
          THEN UNCHANGED <<step, isOpen, walletProvider, comp, inst, processedTxHashes, tx, ev>>
          ELSE /\ tx[h].completeCalls < MaxCalls
               /\ processedTxHashes' = [processedTxHashes EXCEPT ![inst] = @ \cup {h}]
               /\ tx' = [tx EXCEPT ![h].stage = "completing",
                                   ![h].completeCalls = @ + 1]
               /\ Commit(step, isOpen, walletProvider, comp)
               /\ ev' = PcEvent("confirmEffect", FALSE, FALSE, NoMsg)
    /\ UNCHANGED <<CtxRest, nextTx, completedBy>> /\ PcFrame

\* Mutant: pollConfirmations never calls poll().
StartPoll_none(t, txs) == [txs EXCEPT ![t].stage = "done"]

\* pollConfirmations(txHash): poll() is called at once.
StartPoll(t, txs) == [txs EXCEPT ![t].stage = "done", ![t].pollInFlight = @ + 1]

\* completeSession settles.  On success the Yours closure stores the result,
\* consults the processed set and awaits onSuccess; the confirmation effect
\* awaits onSuccess.  On failure the handler's catch block runs.
CompleteResolve ==
    /\ Idle
    /\ \E t \in TxIds :
        /\ tx[t].stage = "completing"
        /\ LET i == tx[t].inst
               ok1 == [tx EXCEPT ![t].completeOk = TRUE]
           IN \/ /\ tx[t].successCalls < MaxCalls
                 /\ IF tx[t].kind = "yours"
                    THEN IF ~ProcessedHas(i, t)
                         THEN /\ processedTxHashes' = [processedTxHashes EXCEPT ![i] = @ \cup {t}]
                              /\ tx' = [ok1 EXCEPT ![t].stage = "notifying",
                                                   ![t].successCalls = @ + 1]
                              /\ Commit(step, isOpen, walletProvider,
                                        Local(i, [comp EXCEPT !.txHash = t]))
                         ELSE /\ UNCHANGED processedTxHashes
                              /\ tx' = StartPoll(t, ok1)
                              /\ Commit(step, isOpen, walletProvider,
                                        Local(i, [comp EXCEPT !.txHash = t,
                                                              !.isProcessing = FALSE]))
                    ELSE /\ UNCHANGED processedTxHashes
                         /\ tx' = [ok1 EXCEPT ![t].stage = "notifying",
                                              ![t].successCalls = @ + 1]
                         /\ Commit(step, isOpen, walletProvider, comp)
                 /\ ev' = PcEvent("completeSession.ok", FALSE, FALSE, NoMsg)
              \/ \E m \in Messages :
                 /\ tx' = [tx EXCEPT ![t].stage = "failed"]
                 /\ UNCHANGED processedTxHashes
                 /\ IF tx[t].kind = "yours"
                    THEN YoursCatch("completeSession.fail", i, m)
                    ELSE EvmCatch("completeSession.fail", i, m)
    /\ UNCHANGED <<CtxRest, nextTx, completedBy>> /\ PcFrame

\* The merchant's onSuccess settles: polling starts, or the catch block runs.
SuccessResolve ==
    /\ Idle
    /\ \E t \in TxIds :
        /\ tx[t].stage = "notifying"
        /\ LET i == tx[t].inst
           IN \/ /\ tx' = StartPoll(t, [tx EXCEPT ![t].successDone = TRUE])
                 /\ Commit(step, isOpen, walletProvider,
                           Local(i, [comp EXCEPT !.isProcessing = FALSE]))
                 /\ ev' = PcEvent("onSuccess.ok", FALSE, FALSE, NoMsg)
              \/ \E m \in Messages :
                 /\ tx' = [tx EXCEPT ![t].stage = "failed"]
                 /\ IF tx[t].kind = "yours"
                    THEN YoursCatch("onSuccess.throw", i, m)
                    ELSE EvmCatch("onSuccess.throw", i, m)
    /\ UNCHANGED <<CtxRest, processedTxHashes, nextTx, completedBy>> /\ PcFrame

\* The backend indexes the transaction and later sees it confirmed; its
\* view is read only by a getTransactionStatus call that is in flight.
BackendAdvance ==
    /\ Idle
    /\ \E t \in TxIds :
        /\ tx[t].pollInFlight > 0
        /\ tx[t].backend # "confirmed"
        /\ tx' = [tx EXCEPT ![t].backend = IF @ = "unknown" THEN "pending" ELSE "confirmed"]
    /\ ev' = PcEvent("env", FALSE, FALSE, NoMsg)
    /\ UNCHANGED <<step, isOpen, walletProvider, comp, inst>>
    /\ UNCHANGED <<CtxRest, processedTxHashes, nextTx, completedBy>> /\ PcFrame

\* Mutant: the catch block of poll() drops the failure without a retry.
PollAgain_dropped(t, op, m) ==
    /\ tx' = [tx EXCEPT ![t].pollInFlight = @ - 1]
    /\ Commit(step, isOpen, walletProvider, comp)
    /\ UNCHANGED completedBy
    /\ ev' = PcEvent(op, FALSE, FALSE, m)

\* poll(): the branch taken when getTransactionStatus throws or reports
\* found: false or isConfirmed false -- setTimeout(poll, 3000).
PollAgain(t, op, m) ==
    /\ tx' = [tx EXCEPT ![t].pollInFlight = @ - 1,
                        ![t].pollTimers = @ + PollReschedule,
                        ![t].pollDelay = PollDelayMs]
    /\ Commit(step, isOpen, walletProvider, comp)
    /\ UNCHANGED completedBy
    /\ ev' = PcEvent(op, FALSE, FALSE, m)

\* Mutant: every status reply counts as confirmed.
StatusConfirmed_always(t) == TRUE

\* status.found && status.isConfirmed
StatusConfirmed(t) == tx[t].backend = "confirmed"

\* getTransactionStatus answers with the backend's view of the hash.
PollStatus(t) ==
    /\ Idle
    /\ tx[t].pollInFlight > 0
    /\ IF StatusConfirmed(t)
       THEN /\ tx' = [tx EXCEPT ![t].pollInFlight = @ - 1, ![t].stage = "confirmed"]
            /\ Commit("complete", isOpen, walletProvider, comp)
            /\ completedBy' = t
            /\ ev' = PcEvent("poll.confirmed", FALSE, FALSE, NoMsg)
       ELSE PollAgain(t, IF tx[t].backend = "unknown" THEN "poll.notFound" ELSE "poll.pending", NoMsg)
    /\ UNCHANGED <<CtxRest, processedTxHashes, nextTx>> /\ PcFrame

\* getTransactionStatus throws (network error, non-2xx response).
PollThrow(t) ==
    /\ Idle
    /\ tx[t].pollInFlight > 0
    /\ PollAgain(t, "poll.throw", NetworkMsg)
    /\ UNCHANGED <<CtxRest, processedTxHashes, nextTx>> /\ PcFrame

\* A scheduled setTimeout(poll, 3000) fires: the next getTransactionStatus.
PollTimerFire(t) ==
    /\ Idle
    /\ tx[t].pollTimers > 0
    /\ tx' = [tx EXCEPT ![t].pollTimers = @ - 1,
                        ![t].pollInFlight = @ + 1,
                        ![t].pollDelay = IF tx[t].pollTimers = 1 THEN 0 ELSE @]
    /\ ev' = PcEvent("env", FALSE, FALSE, NoMsg)
    /\ UNCHANGED <<step, isOpen, walletProvider, comp, inst>>
    /\ UNCHANGED <<CtxRest, processedTxHashes, nextTx, completedBy>> /\ PcFrame

PollStatusAny == \E t \in TxIds : PollStatus(t)

PollThrowAny == \E t \in TxIds : PollThrow(t)

PollTimerFireAny == \E t \in TxIds : PollTimerFire(t)

Init ==
    /\ impl = "ctx"
    /\ InitCtx
    /\ InitSlice
    /\ config = "ok"
    /\ InitPc
    /\ InitClock
    /\ InitCartIdle
    /\ InitTotalsIdle
    /\ InitPricingIdle
    /\ InitExtraIdle
    /\ ev = NoEvent

Next ==
    \/ OpenModal
    \/ CloseModal
    \/ ConnectWallet
    \/ DisconnectWallet
    \/ ProceedToPayment
    \/ OnComplete
    \/ TryAgain
    \/ WalletRequiredConnect
    \/ HandleTokenSelect
    \/ TokenSelectorBack
    \/ HandleProceedToPayment
    \/ ProceedResolve
    \/ AutoCreateEffect
    \/ AutoResolve
    \/ ConfirmBack
    \/ HandlePayment
    \/ SwitchElapsed
    \/ WalletSigned
    \/ WalletFailed
    \/ ReceiptConfirmed
    \/ WriteErrorEffect
    \/ SendMNEEResolve
    \/ ConfirmEffect
    \/ CompleteResolve
    \/ SuccessResolve
    \/ BackendAdvance
    \/ PollStatusAny
    \/ PollThrowAny
    \/ PollTimerFireAny

Spec == Init /\ [][Next]_vars

\* The checkout with a running clock: every session expires at time 1.
InitExpiry ==
    /\ impl = "ctx"
    /\ InitCtx
    /\ InitSlice
    /\ config = "ok"
    /\ InitPc
    /\ now = 0
    /\ expiresAt = [i \in SessionIds |-> 1]
    /\ valid = FALSE
    /\ InitCartIdle
    /\ InitTotalsIdle
    /\ InitPricingIdle
    /\ InitExtraIdle
    /\ ev = NoEvent

NextExpiry == Next \/ Tick

SpecExpiry == InitExpiry /\ [][NextExpiry]_vars

\* The checkout with payments beyond the followed ones.
NextRetry == Next \/ HandlePaymentAgain

SpecRetry == Init /\ [][NextRetry]_vars

\* The event loop runs every due effect and timer, and a status request
\* that keeps being made is eventually answered by the backend.
Fairness ==
    /\ WF_vars(AutoCreateEffect)
    /\ WF_vars(WriteErrorEffect)
    /\ WF_vars(ConfirmEffect)
    /\ \A t \in TxIds : SF_vars(PollTimerFire(t)) /\ SF_vars(PollStatus(t))

FairSpec == Init /\ [][Next]_vars /\ Fairness

\* In addition every createSession request of the automatic effect is
\* eventually answered.
FairAutoSpec == Init /\ [][Next]_vars /\ Fairness /\ WF_vars(AutoResolve)

InitSession ==
    /\ impl \in {"ctx", "slice"}
    /\ InitCtx
    /\ InitSlice
    /\ impl = "ctx" => config = "ok"
    /\ InitPc
    /\ InitClock
    /\ InitCartIdle
    /\ InitTotalsIdle
    /\ InitPricingIdle
    /\ InitExtraIdle
    /\ walletProvider = "none"
    /\ ev = NoEvent

NextSession ==
    \/ CtxCreateSession
    \/ CtxCreateSessionResolve
    \/ CtxClearSession
    \/ CtxResetCheckout
    \/ CtxSetErrors
    \/ SliceCreateSession
    \/ SliceCreateSessionResolve
    \/ SliceClearSession
    \/ SliceResetCheckout
    \/ SliceSetErrors
    \/ SliceSetConfig

SpecSession == InitSession /\ [][NextSession]_vars

\* Two cart instances over one persisted snapshot: local mutations, persist
\* effects and storage events in every interleaving.
InitCart ==
    /\ impl = "ctx"
    /\ InitCtx
    /\ InitSlice
    /\ config = "ok"
    /\ InitPc
    /\ walletProvider = "none"
    /\ InitClock
    /\ ev = NoEvent
    /\ cartMode \in CartModes
    /\ storage \in {JSONStringify(initialCartState), JSONStringify(PersistedCart)}
    /\ carts = [i \in Instances |-> JSONParse(storage)]
    /\ effectPending = [i \in Instances |-> FALSE]
    /\ inbox = [i \in Instances |-> <<>>]
    /\ nextId = 1
    /\ mutations = 0
    /\ applied = 0
    /\ lastSync = NoSync
    /\ lastCall = NoCall
    /\ InitTotalsIdle
    /\ InitPricingIdle
    /\ InitExtraIdle

NextCart ==
    \/ CartAddToCart
    \/ CartRemoveFromCart
    \/ CartUpdateQuantity
    \/ CartClearCart
    \/ CartPersist
    \/ CartStorageEvent

SpecCart == InitCart /\ [][NextCart]_vars

\* MneeCheckout rendering the totals of a single-product checkout for
\* every button configuration while the customer edits the form.
InitTotals ==
    /\ impl = "ctx"
    /\ InitCtx
    /\ InitSlice
    /\ config = "ok"
    /\ InitPc
    /\ walletProvider = "none"
    /\ InitClock
    /\ InitCartIdle
    /\ ev = NoEvent
    /\ buttonConfig \in ButtonConfigs
    /\ checkoutType \in CheckoutTypes
    /\ orderForm = initialOrderForm
    /\ checkoutTotalsMemo = checkoutTotals(buttonConfig, checkoutType, orderForm)
    /\ InitPricingIdle
    /\ InitExtraIdle

NextTotals ==
    \/ OrderQuantityChange
    \/ OrderSelectOption
    \/ OrderDonationAmount

SpecTotals == InitTotals /\ [][NextTotals]_vars

\* EcommerceCheckout over every schema and selection map: the schema is
\* reordered, unrelated keys appear in the selections, items are added.
InitPricing ==
    /\ impl = "slice"
    /\ InitCtx
    /\ InitSlice
    /\ config = "ok"
    /\ InitPc
    /\ walletProvider = "none"
    /\ InitClock
    /\ InitTotalsIdle
    /\ ev = NoEvent
    /\ cartMode = "storeTabs"
    /\ carts = [i \in Instances |-> initialCartState]
    /\ storage = JSONStringify(initialCartState)
    /\ effectPending = [i \in Instances |-> FALSE]
    /\ inbox = [i \in Instances |-> <<>>]
    /\ nextId = 1
    /\ mutations = 0
    /\ applied = 0
    /\ lastSync = NoSync
    /\ lastCall = NoCall
    /\ productSchema \in Schemas
    /\ formSelections \in SelectionMaps
    /\ optionsTotal = calculateOptionsTotal(productSchema, formSelections)
    /\ InitExtraIdle

NextPricing ==
    \/ ReorderSchema
    \/ AddUnrelatedKey
    \/ PricingAddToCart

SpecPricing == InitPricing /\ [][NextPricing]_vars

\* The wallet managers after mount: the Yours extension may already be
\* connected for the origin and wagmi may hold a stored connection.
InitWallet ==
    /\ impl = "slice"
    /\ InitCtx
    /\ InitSlice
    /\ config = "ok"
    /\ InitPc
    /\ walletProvider = "none"
    /\ InitClock
    /\ InitCartIdle
    /\ InitTotalsIdle
    /\ InitPricingIdle
    /\ ev = NoEvent
    /\ walletImpl \in WalletImpls
    /\ walletState = initialWalletState
    /\ web3Connected = FALSE
    /\ web3Intent \in {"none", "reconnect"}
    /\ yoursExt \in BOOLEAN
    /\ webEffectDue = TRUE
    /\ yoursCheckDue = TRUE
    /\ yoursCheckAwaiting = FALSE
    /\ walletOp = IdleOp
    /\ staysDisconnected = FALSE
    /\ InitSwitchIdle
    /\ InitValIdle
    /\ InitHist

NextWallet ==
    \/ WalletWeb3Connected
    \/ WalletWeb3Disconnected
    \/ WalletWeb3SyncEffect
    \/ WalletYoursSignedOut
    \/ WalletCheckYours
    \/ WalletCheckYoursResolve
    \/ WalletYoursDisconnectResolve
    \/ WalletContinue
    \/ WalletYoursConnectResolve
    \/ WalletHandleYoursConnect
    \/ WalletHandleWeb3Connect
    \/ WalletHandleDisconnect

SpecWallet == InitWallet /\ [][NextWallet]_vars

\* persist's partialize: the part of the wallet slice written to localStorage.
partialize(ws) ==
    [address |-> ws.address, provider |-> ws.provider, isConnected |-> ws.isConnected]

\* The wallet slice after persist merged a stored wallet over the initial
\* state: the stored object replaces the slice, so isConnecting is undefined.
Rehydrated(stored) ==
    [isConnected |-> stored.isConnected, isConnecting |-> FALSE,
     address |-> stored.address, provider |-> stored.provider]

\* The wallets a previous page load can have left in localStorage.
PersistedWallets ==
    {partialize(w) :
        w \in {initialWalletState, YoursConnected,
               [isConnected |-> TRUE, isConnecting |-> FALSE, address |-> "evm",
                provider |-> "rainbowkit"]}}

\* The page is loaded again: the store starts from the persisted wallet, the
\* extension and wagmi are in whatever state they are now, and the effects
\* of useWalletSync are due.
InitReload ==
    /\ impl = "slice"
    /\ InitCtx
    /\ InitSlice
    /\ config = "ok"
    /\ InitPc
    /\ walletProvider = "none"
    /\ InitClock
    /\ InitCartIdle
    /\ InitTotalsIdle
    /\ InitPricingIdle
    /\ ev = NoEvent
    /\ walletImpl = "store"
    /\ walletState \in {Rehydrated(p) : p \in PersistedWallets}
    /\ web3Connected = FALSE
    /\ web3Intent \in {"none", "reconnect"}
    /\ yoursExt \in BOOLEAN
    /\ webEffectDue = TRUE
    /\ yoursCheckDue = TRUE
    /\ yoursCheckAwaiting = FALSE
    /\ walletOp = IdleOp
    /\ staysDisconnected = FALSE
    /\ InitSwitchIdle
    /\ InitValIdle
    /\ InitHist

\* The effects run once due, every awaited call of the extension settles
\* and a connection wagmi is restoring is restored; the buyer need not act.
WalletFairness ==
    /\ WF_vars(WalletWeb3SyncEffect)
    /\ WF_vars(WalletCheckYours)
    /\ WF_vars(WalletCheckYoursResolve)
    /\ WF_vars(WalletYoursDisconnectResolve)
    /\ WF_vars(WalletContinue)
    /\ WF_vars(WalletYoursConnectResolve)
    /\ WF_vars(WalletWeb3Connected /\ web3Intent = "reconnect")

FairReloadSpec == InitReload /\ [][NextWallet]_vars /\ WalletFairness

\* The cart checkout after its mount effect set the step to cart; the store
\* wallet is the one the modal reads.
InitSwitch ==
    /\ impl = "slice"
    /\ InitCtx
    /\ InitSlice
    /\ config = "ok"
    /\ InitPc
    /\ walletProvider = "none"
    /\ InitClock
    /\ InitCartIdle
    /\ InitTotalsIdle
    /\ InitPricingIdle
    /\ ev = NoEvent
    /\ walletImpl = "store"
    /\ walletState = initialWalletState
    /\ web3Connected = FALSE
    /\ web3Intent \in {"none", "reconnect"}
    /\ yoursExt \in BOOLEAN
    /\ webEffectDue = TRUE
    /\ yoursCheckDue = TRUE
    /\ yoursCheckAwaiting = FALSE
    /\ walletOp = IdleOp
    /\ staysDisconnected = FALSE
    /\ swStep = "cart"
    /\ isSwitchingWallet = FALSE
    /\ ctxWallet \in {initialWalletState} \cup (IF yoursExt THEN {YoursConnected} ELSE {})
    /\ walletAddress = "none"
    /\ switchFrom = "none"
    /\ InitValIdle
    /\ InitHist

NextSwitch ==
    \/ WalletWeb3Connected
    \/ WalletWeb3Disconnected
    \/ WalletWeb3SyncEffect
    \/ WalletCheckYours
    \/ WalletCheckYoursResolve
    \/ WalletYoursDisconnectResolve
    \/ WalletContinue
    \/ SwitchProceedToCheckout
    \/ SwitchOpenConnectModal
    \/ SwitchCtxConnectYours
    \/ SwitchHandleSwitchWallet
    \/ SwitchCtxWeb3Sync
    \/ SwitchMirror
    \/ SwitchAutoTransition
    \/ SwitchAutoAdvance

SpecSwitch == InitSwitch /\ [][NextSwitch]_vars

\* A product form or a cart view is shown with some contact and address.
InitValidate ==
    /\ valView \in {"product", "cart"}
    /\ impl \in (IF valView = "cart" THEN {"ctx", "slice"} ELSE {"slice"})
    /\ InitCtx
    /\ InitSlice
    /\ config = "ok"
    /\ InitPc
    /\ walletProvider = "none"
    /\ InitClock
    /\ InitCartIdle
    /\ InitTotalsIdle
    /\ InitPricingIdle
    /\ InitWalletIdle
    /\ InitSwitchIdle
    /\ InitHist
    /\ ev = NoEvent
    /\ userContact \in [email : Emails, phone : Phones]
    /\ userShipping \in Shippings
    /\ collect \in [email : BOOLEAN, phone : BOOLEAN, shipping : BOOLEAN]
    /\ sizeValue \in (IF valView = "product" THEN {<<>>, <<"M">>} ELSE {<<>>})
    /\ valStep = IF valView = "product" THEN "collecting" ELSE "cart"
    /\ valErrors = {}
    /\ valHasWallet \in BOOLEAN

NextValidate ==
    \/ ValHandleProceed
    \/ ValHandleProceedToCheckout
    \/ ValSetEmail
    \/ ValSetPhone

SpecValidate == InitValidate /\ [][NextValidate]_vars

\* Both managers with a running clock: sessions are created and cleared,
\* their deadlines pass, and isSessionValid is read at any moment.
InitTime ==
    /\ impl \in {"ctx", "slice"}
    /\ InitCtx
    /\ InitSlice
    /\ config = "ok"
    /\ InitPc
    /\ walletProvider = "none"
    /\ ev = NoEvent
    /\ now = 0
    /\ expiresAt \in [SessionIds -> Times]
    /\ valid = FALSE
    /\ InitCartIdle
    /\ InitTotalsIdle
    /\ InitPricingIdle
    /\ InitExtraIdle

NextTime ==
    \/ Tick
    \/ CtxIsSessionValid
    \/ CtxCreateSession
    \/ CtxCreateSessionResolve
    \/ CtxClearSession
    \/ SliceIsSessionValid
    \/ SliceCreateSession
    \/ SliceCreateSessionResolve
    \/ SliceClearSession

SpecTime == InitTime /\ [][NextTime]_vars

\* Both managers driven through the operations that fill and reset the
\* checkout state.
InitForm ==
    /\ InitSession
    /\ config = "ok"

NextForm ==
    \/ CtxUpdateFormData
    \/ CtxSetStep
    \/ CtxSetPaymentResult
    \/ CtxSyncWallet
    \/ CtxCreateSession
    \/ CtxCreateSessionResolve
    \/ CtxResetCheckout
    \/ SliceUpdateFormData
    \/ SliceSetStep
    \/ SliceSetPaymentResult
    \/ SliceSyncWallet
    \/ SliceCreateSession
    \/ SliceCreateSessionResolve
    \/ SliceResetCheckout

SpecForm == InitForm /\ [][NextForm]_vars

(***************************************************************************)
(* Claims about the session managers (checked under SpecSession)           *)
(***************************************************************************)

\* C1: a createSession invoked while an earlier call is still awaiting its
\* response (and the guard was not reset in between) is a silent no-op: it
\* issues no request, does not throw, and leaves session, errors and the set
\* of outstanding requests as they were, so the two invocations make one call.
C1_SecondCreateSessionIsNoOp ==
    [][ev'.op = "createSession" =>
          /\ (ev'.mgr = "ctx" /\ requests # {} /\ ~ctxDisturbed) =>
                /\ ~ev'.net /\ ~ev'.threw
                /\ session' = session /\ errors' = errors
                /\ requests' = requests /\ nextSession' = nextSession
          /\ (ev'.mgr = "slice" /\ sliceRequests # {} /\ ~sliceDisturbed) =>
                /\ ~ev'.net /\ ~ev'.threw
                /\ checkout'.session = checkout.session
                /\ checkout'.errors = checkout.errors
                /\ sliceRequests' = sliceRequests /\ sliceNext' = sliceNext]_vars

\* C1 witness: the context's createSession was just skipped while the one
\* request of the earlier call is still outstanding.
C1_Witness ==
    /\ ev.op = "createSession" /\ ev.mgr = "ctx" /\ ~ev.net
    /\ Cardinality(requests) = 1 /\ ~ctxDisturbed
    /\ nextSession = 2

\* C6: at most one createSession request is outstanding in every reachable
\* state, whatever the interleaving of createSession, clearSession and
\* resetCheckout.
C6_AtMostOneOutstanding ==
    /\ Cardinality(requests) <= 1
    /\ Cardinality(sliceRequests) <= 1

\* C7: right after a createSession invocation that passed the guard settles
\* (response, rejection, or a precondition check that throws) the in-flight
\* flag of its manager is false.
C7_FlagClearedWhenSettled ==
    (ev.op = "createSession.settle" \/ (ev.op = "createSession" /\ ev.threw)) =>
        /\ ev.mgr = "ctx" => ~isCreatingSessionRef
        /\ ev.mgr = "slice" => ~checkout.isCreatingSession

\* The events in which a transfer fails: wallet.sendMNEE throws or returns
\* no txid, or useWriteContract reports an error.
TransferFailures == {"sendMNEE.throw", "sendMNEE.noTxid", "writeErrorEffect"}

\* The events in which a confirmation poll ends without a confirmation.
UnconfirmedPolls == {"poll.throw", "poll.notFound", "poll.pending"}

\* C2: for every transaction hash, completeSession is called at most once
\* and the merchant's onSuccess is invoked at most once, however often the
\* confirmation effect runs for that hash.
C2_AtMostOncePerHash ==
    \A t \in TxIds : tx[t].completeCalls <= 1 /\ tx[t].successCalls <= 1

\* The confirmation effect is due to run again for a hash it has processed.
C2_Witness ==
    /\ ConfirmCond
    /\ ProcessedHas(inst, comp.hash)
    /\ tx[comp.hash].completeCalls = 1
    /\ tx[comp.hash].successCalls = 1

\* C3: whenever the step is "complete", the poll that set it saw the
\* transfer confirmed, completeSession was called exactly once for that
\* hash and succeeded, and onSuccess had been awaited to completion.
C3_CompleteOnlyAfterAllThree ==
    step = "complete" =>
        /\ completedBy # NoTx
        /\ tx[completedBy].backend = "confirmed"
        /\ tx[completedBy].completeCalls = 1
        /\ tx[completedBy].completeOk
        /\ tx[completedBy].successDone

C3_Witness ==
    step = "complete" /\ completedBy # NoTx /\ tx[completedBy].kind = "evm"

\* C4: when a transfer fails while the step is "processing" with an error
\* classified as a user rejection, or the Yours wallet returns no txid, the
\* step becomes "confirming" (not "error"), onError is not invoked, and the
\* writeError handler of the EVM path shows the token selector again.
C4_RejectionReturnsToConfirming ==
    [][(/\ step = "processing"
        /\ ev'.op \in TransferFailures
        /\ (ev'.op = "sendMNEE.noTxid" \/ isUserRejection(parsePaymentError(ev'.msg))))
       => /\ step' = "confirming"
          /\ ~ev'.onError
          /\ (ev'.op = "writeErrorEffect" => comp'.showTokenSelector)]_vars

\* An EVM write was rejected by the user and the selector is back on screen.
C4_Witness ==
    /\ ev.op = "writeErrorEffect"
    /\ ev.msg = UserRejectedMsg
    /\ step = "confirming"
    /\ Screen = "tokenSelector"

\* C5 (as stated): when a transfer fails while the step is "processing"
\* with an error that is not a user rejection, the step becomes "error"
\* and onError is invoked.
C5_OtherFailuresAreFatal ==
    [][(/\ step = "processing"
        /\ ev'.op \in {"sendMNEE.throw", "writeErrorEffect"}
        /\ ~UserDeclined(ev'.msg))
       => step' = "error" /\ ev'.onError]_vars

\* C8 (as stated): a session is created once per checkout attempt, so a
\* createSession request is issued only while the attempt has no session.
C8_RequestOnlyWithoutSession ==
    [][(ev'.mgr = "pc" /\ ev'.net) => session = NoSession]_vars

C10_UnconfirmedPollReschedulesOnce ==
    /\ [](\A t \in TxIds : tx[t].pollInFlight + tx[t].pollTimers <= 1)
    /\ [][\A t \in TxIds :
            (ev'.op \in UnconfirmedPolls /\ tx'[t] # tx[t])
            => /\ step' = step
               /\ ~ev'.onError
               /\ tx[t].pollInFlight = 1 /\ tx'[t].pollInFlight = 0
               /\ tx[t].pollTimers = 0 /\ tx'[t].pollTimers = 1
               /\ tx'[t].pollDelay = PollDelayMs]_vars

C10_Witness ==
    /\ ev.op \in {"poll.throw", "poll.notFound"}
    /\ step = "processing"
    /\ \E t \in TxIds : tx[t].pollTimers = 1 /\ tx[t].pollInFlight = 0

(***************************************************************************)
(* Claims about the checkout state (checked under SpecForm)                *)
(***************************************************************************)

\* C11: after resetCheckout the step is initial; formData.email, .shipping,
\* .quantity, .donationAmount and .customFields equal their pre-reset values;
\* session, paymentResult and errors are cleared; and the wallet connection
\* state is unchanged.
C11_ResetKeepsFormAndWallet ==
    [][ev'.op = "resetCheckout" =>
          /\ ev'.mgr = "ctx" =>
                /\ step' = "initial"
                /\ \A k \in CtxFormKeys \cup {"customFields"} : formData'[k] = formData[k]
                /\ session' = NoSession /\ ~paymentResult' /\ errors' = {}
                /\ walletProvider' = walletProvider
          /\ ev'.mgr = "slice" =>
                /\ checkout'.step = "initial"
                /\ \A k \in CtxFormKeys \cup {"customFields"} :
                      checkout'.formData[k] = checkout.formData[k]
                /\ checkout'.session = NoSession /\ ~checkout'.paymentResult
                /\ checkout'.errors = {}
                /\ wallet' = wallet]_vars

\* C11 witness: the context was just reset with every form field filled, a
\* wallet connected and a createSession call behind it.
C11_Witness ==
    /\ ev.op = "resetCheckout" /\ ev.mgr = "ctx"
    /\ \A k \in CtxFormKeys : formData[k] # Undefined
    /\ formData.customFields # {}
    /\ walletProvider # "none"
    /\ nextSession > 1 /\ requests = {}
    /\ step = "initial" /\ session = NoSession /\ ~paymentResult /\ errors = {}

(***************************************************************************)
(* Claims about session validity (checked under SpecTime)                  *)
(***************************************************************************)

\* C12: isSessionValid() returns true exactly when a session is present and
\* the current time is strictly before its expiresAt; the answer comes from
\* the comparison made at the read, and the passing of time alone changes
\* neither manager's state (no timer clears or flags the session).
C12_ValidIffBeforeDeadline ==
    [][/\ (ev'.op = "isSessionValid" /\ ev'.mgr = "ctx") =>
             /\ valid' <=> (session # NoSession /\ now < expiresAt[session])
             /\ UNCHANGED <<ctxVars, sliceVars>>
       /\ (ev'.op = "isSessionValid" /\ ev'.mgr = "slice") =>
             /\ valid' <=>
                  (checkout.session # NoSession /\ now < expiresAt[checkout.session])
             /\ UNCHANGED <<ctxVars, sliceVars>>
       /\ ev'.op = "tick" => UNCHANGED <<ctxVars, sliceVars, valid>>]_vars

\* C12 witness: the context holds a session whose deadline is exactly now,
\* and isSessionValid() has just returned false for it.
C12_Witness ==
    /\ ev.op = "isSessionValid" /\ ev.mgr = "ctx"
    /\ session # NoSession
    /\ now > 0 /\ expiresAt[session] = now
    /\ ~valid

(***************************************************************************)
(* Claims about the cart (checked under SpecCart)                          *)
(***************************************************************************)

\* C13: in every cart state itemCount is the sum of the quantities of all
\* items and subtotal is the sum over all items of
\* (baseAmount + optionsTotal) * quantity, after any sequence of addToCart,
\* removeFromCart, updateQuantity, clearCart and synchronised updates.
C13_CountersMatchItems ==
    \A i \in Instances :
        LET items == carts[i].items
            lines == 1..Len(items)
        IN  /\ carts[i].itemCount =
                  SumSeq([k \in lines |-> items[k].quantity])
            /\ carts[i].subtotal =
                  SumSeq([k \in lines |->
                            (items[k].baseAmount + items[k].optionsTotal)
                               * items[k].quantity])

\* C13 witness: an instance that took its cart from the other one holds two
\* lines of different quantity, one of them with a priced option.
C13_Witness ==
    \E i \in Instances :
        /\ lastSync.inst = i /\ lastSync.applied /\ cartMode = "ctxTabs"
        /\ Len(carts[i].items) = 2
        /\ carts[i].items[1].quantity # carts[i].items[2].quantity
        /\ \E k \in 1..2 : carts[i].items[k].optionsTotal > 0
        /\ carts[i].itemCount = 3

\* C14 (as stated): cart totals use two-stage rounding: each line's
\* subtotal, tax and shipping is rounded to 2 decimals, and each cart-level
\* figure is the sum of those rounded line values, rounded again; two
\* identical lines of subtotal 19.995 taxed at 8% give an aggregate tax of
\* 3.20.  getCartTotal adds the line subtotals as computed, so two lines of
\* 19.995 give a cart subtotal of 39.99 where the rounded lines add to 40.00.
C14_TwoStageRounding ==
    \A i \in Instances :
        LET items == carts[i].items
            lines == 1..Len(items)
            totals == getCartTotal(items)
            cents(mills) == ((2 * mills + MillsPerCent) \div (2 * MillsPerCent)) * MillsPerCent
            lineSubtotal(k) ==
                cents((items[k].baseAmount + items[k].optionsTotal) * items[k].quantity)
            lineTax(k) ==
                ((2 * (items[k].baseAmount + items[k].optionsTotal) * items[k].quantity
                      * items[k].taxRate + 1000) \div 2000) * MillsPerCent
            lineShipping(k) == totals.itemBreakdown[k].itemShipping
        IN  /\ \A k \in lines :
                  /\ totals.itemBreakdown[k].itemSubtotal = lineSubtotal(k)
                  /\ totals.itemBreakdown[k].itemTax = lineTax(k)
                  /\ lineShipping(k) % MillsPerCent = 0
            /\ totals.subtotal = cents(SumSeq([k \in lines |-> lineSubtotal(k)]))
            /\ totals.tax =
                  cents(SumSeq([k \in lines |-> lineTax(k)]))
            /\ totals.shipping = cents(SumSeq([k \in lines |-> lineShipping(k)]))
            /\ (/\ Len(items) = 2
                /\ \A k \in lines :
                      /\ (items[k].baseAmount + items[k].optionsTotal) * items[k].quantity = 19995
                      /\ items[k].taxRate = 8)
                  => totals.tax = 3200

C16_AmountCharged_asStated ==
    checkoutType = "ecommerce" =>
        LET selected == Selected(orderForm.customFields, "size")
            modifiers == IF selected = "xl" THEN 200 ELSE 0
            quantity == IF orderForm.quantity = 0 THEN 1 ELSE orderForm.quantity
            subtotal == (buttonConfig.priceUsdCents + modifiers) * quantity
            tax == (2 * subtotal * buttonConfig.taxRatePercent + 100) \div 200
            shipping ==
                IF /\ buttonConfig.freeShippingThreshold # 0
                   /\ subtotal >= buttonConfig.freeShippingThreshold
                THEN 0
                ELSE buttonConfig.shippingCostCents
        IN  checkoutTotalsMemo =
                [subtotal |-> subtotal, tax |-> tax, shipping |-> shipping,
                 total |-> subtotal + tax + shipping]

\* C16 (amended): as above, with shipping charged only when the button
\* collects a shipping address and otherwise 0; base 1999c, option +200c,
\* quantity 2, 8% tax, shipping 500c and threshold 5000c give subtotal
\* 43.98, shipping 5.00, tax 3.52 and total 52.50.
C16_AmountCharged ==
    checkoutType = "ecommerce" =>
        LET selected == Selected(orderForm.customFields, "size")
            modifiers == IF selected = "xl" THEN 200 ELSE 0
            quantity == IF orderForm.quantity = 0 THEN 1 ELSE orderForm.quantity
            subtotal == (buttonConfig.priceUsdCents + modifiers) * quantity
            tax == (2 * subtotal * buttonConfig.taxRatePercent + 100) \div 200
            shipping ==
                IF ~buttonConfig.collectShipping THEN 0
                ELSE IF /\ buttonConfig.freeShippingThreshold # 0
                        /\ subtotal >= buttonConfig.freeShippingThreshold
                THEN 0
                ELSE buttonConfig.shippingCostCents
        IN  /\ checkoutTotalsMemo =
                  [subtotal |-> subtotal, tax |-> tax, shipping |-> shipping,
                   total |-> subtotal + tax + shipping]
            /\ (/\ selected = "xl" /\ quantity = 2
                /\ buttonConfig.taxRatePercent = 8
                /\ buttonConfig.collectShipping
                /\ buttonConfig.shippingCostCents = 500
                /\ buttonConfig.freeShippingThreshold = 5000)
                  => checkoutTotalsMemo =
                        [subtotal |-> 4398, tax |-> 352, shipping |-> 500, total |-> 5250]

\* C16 witness: the example has been rendered after the customer chose the
\* option and the quantity.
C16_Witness ==
    /\ checkoutType = "ecommerce"
    /\ ev.mgr = "totals"
    /\ buttonConfig.priceUsdCents = 1999 /\ buttonConfig.taxRatePercent = 8
    /\ buttonConfig.collectShipping /\ buttonConfig.shippingCostCents = 500
    /\ buttonConfig.freeShippingThreshold = 5000
    /\ Selected(orderForm.customFields, "size") = "xl" /\ orderForm.quantity = 2
    /\ checkoutTotalsMemo.subtotal = 4398 /\ checkoutTotalsMemo.shipping = 500
    /\ checkoutTotalsMemo.tax = 352 /\ checkoutTotalsMemo.total = 5250

(***************************************************************************)
(* Claims about option pricing (checked under SpecPricing)                 *)
(***************************************************************************)

C18_OptionPricesSumToTotal ==
    /\ SumValues(getOptionPrices(productSchema, formSelections)) = optionsTotal
    /\ optionsTotal = ModifierSum(productSchema, formSelections)
    /\ \A i \in Instances : \A k \in 1..Len(carts[i].items) :
          LET item == carts[i].items[k] IN
            /\ SumValues(item.optionPrices) = item.optionsTotal
            /\ item.optionsTotal =
                  ModifierSum(item.customFieldsSchema, item.selectedOptions)

\* C18 witness: the cart holds an item added with a priced size, a ticked
\* gift box and the colour whose price is 0.
C18_Witness ==
    \E k \in 1..Len(carts[PageInstance].items) :
        LET item == carts[PageInstance].items[k] IN
          /\ DOMAIN item.optionPrices = {"size", "gift", "color"}
          /\ item.optionPrices["color"] = 0
          /\ item.optionsTotal = 5000 + 2500

(***************************************************************************)
(* Claims about cart synchronisation (checked under SpecCart)              *)
(***************************************************************************)

\* C19: a cart update arriving from storage or from a peer instance is
\* applied only if it differs structurally from the current cart, and after
\* a single local mutation the instances apply no more than one update each
\* peer before they are quiescent.
C19_AppliedOnlyIfDifferent ==
    /\ lastSync.applied => lastSync.differs
    /\ mutations <= 1 => applied <= Cardinality(Instances) - 1

\* Nothing is in flight: no persist effect is pending and every change
\* event has been handled.
Quiescent ==
    \A i \in Instances : ~effectPending[i] /\ inbox[i] = <<>>

C27_UpdateQuantityFrame ==
    [][ev'.op = "updateQuantity" =>
        LET i == lastCall'.inst
            n == lastCall'.quantity
            before == carts[i]
            after == carts'[i]
        IN  IF n < 1
            THEN after = before
            ELSE /\ Len(after.items) = Len(before.items)
                 /\ \A k \in 1..Len(before.items) :
                       IF before.items[k].id = lastCall'.itemId
                       THEN after.items[k] = [before.items[k] EXCEPT !.quantity = n]
                       ELSE after.items[k] = before.items[k]
                 /\ after.itemCount = ReduceQuantity(after.items)
                 /\ after.subtotal = ReduceSubtotal(after.items)]_vars

\* C27 witness: in a cart of two items the quantity of the second has just
\* been raised to 2 while the first kept its quantity of 1.
C27_Witness ==
    /\ ev.op = "updateQuantity"
    /\ lastCall.quantity = 2
    /\ LET items == carts[lastCall.inst].items IN
         /\ Len(items) = 2
         /\ items[2].id = lastCall.itemId
         /\ items[2].quantity = 2
         /\ items[1].quantity = 1

(***************************************************************************)
(* Claims about the wallet connection (checked under SpecWallet)           *)
(***************************************************************************)

\* C21: the wallet's active provider never changes directly from one
\* provider kind to another; between two different providers the wallet
\* state is disconnected (no provider, not connected).
C21_NoDirectProviderChange ==
    [][(walletState.provider # "none" /\ walletState'.provider # "none")
          => walletState'.provider = walletState.provider]_vars

\* C23: after an explicit disconnect() completed, or a sign-out of the
\* active provider was observed, the wallet state is disconnected
\* (isConnected false, no address, no provider) until a connect is performed.
C23_StaysDisconnected ==
    staysDisconnected =>
        /\ ~walletState.isConnected
        /\ walletState.address = "none"
        /\ walletState.provider = "none"

\* C22: while a user-initiated wallet switch is in flight, a connection
\* of the previous provider does not advance the checkout from connecting
\* to confirming; only a connection made after the switch does.
C22_StaleConnectionNotAccepted ==
    [][(swStep = "connecting" /\ swStep' = "confirming" /\ switchFrom # "none")
          => ~(staysDisconnected \/ walletOp.stage = "yoursDisconnect")]_vars

\* The inputs the claim names: a required e-mail that is malformed, a
\* required phone of fewer than 7 characters, a required shipping field
\* that is missing.
ProceedInvalid ==
    \/ collect.email /\ userContact.email # <<>> /\ ~emailRegex(userContact.email)
    \/ collect.phone /\ Len(userContact.phone) < MinPhoneLen
    \/ collect.shipping
          /\ (~userShipping.defined \/ \E k \in ShippingKeys : userShipping.fields[k] = <<>>)

C25_FailureRecordedUnderSession ==
    [][/\ (ev'.op \in {"handleProceedToPayment.settle", "autoCreateSession.settle"}
            /\ ev'.onError)
          => ("session" \in errors' /\ step' = "error")
       /\ ev'.op = "completeSession.fail"
          => ("session" \in errors' /\ step' = "error")
       /\ (ev'.op \in {"handleProceedToPayment.settle", "autoCreateSession.settle"}
            /\ ~ev'.onError)
          => "session" \notin errors']_vars

\* A step that handles the failure of an asynchronous session or payment
\* operation: a createSession request of the component settles with an
\* error, the transfer, completeSession or the success callback throws, the
\* EVM write fails, or getTransactionStatus throws.
AsyncFailureHandled ==
    \/ /\ ev'.op \in {"handleProceedToPayment.settle", "autoCreateSession.settle"}
       /\ session' = session
    \/ ev'.op \in {"sendMNEE.throw", "completeSession.fail", "onSuccess.throw",
                    "writeErrorEffect", "poll.throw"}

\* The handler called setStep with error or confirming, or called onError.
UpdatedOrReported == ev'.onError \/ step' \in {"error", "confirming"}

ProviderFailure(m) ==
    \/ Includes(m, "insufficient funds") \/ Includes(m, "insufficient balance")
    \/ Includes(m, "network") \/ Includes(m, "connection")
    \/ Includes(m, "execution reverted")

\* C28: parsePaymentError followed by the user-rejection test treats a
\* failure as a user rejection only when the provider's message says the user
\* declined; an insufficient balance, a network error and a contract revert
\* are never treated as a user rejection and end the attempt in error.
C28_RejectionOnlyWhenUserDeclined ==
    [][ev'.op \in {"sendMNEE.throw", "writeErrorEffect"}
          => /\ isUserRejection(parsePaymentError(ev'.msg)) => UserDeclined(ev'.msg)
             /\ ProviderFailure(ev'.msg)
                   => /\ ~isUserRejection(parsePaymentError(ev'.msg))
                      /\ step' = "error"]_vars

\* C29: whenever a transfer is dispatched, the session it pays against was
\* created for the wallet family and token that are current at dispatch; a
\* session created for an earlier selection is never used for payment.
C29_SessionMatchesSelection ==
    [][(ev'.op = "handlePayment" /\ nextTx' # nextTx)
          => sessionFor[session] = CreatedFor]_vars

\* C30: once a transfer for a session has returned a transaction id, no
\* second transfer is dispatched against that session, also after a
\* completeSession or success-callback failure followed by Try Again.
C30_OneTransferPerSession ==
    [][((ev'.op = "handlePayment" /\ nextTx' # nextTx) \/ ev'.op = "handlePayment.again")
          => ~\E t \in TxIds : tx[t].session = session /\ tx[t].completeCalls > 0]_vars

\* C31: the step complete is entered only from processing and the step
\* error only from confirming or processing; a poll or confirmation effect
\* that finishes late never moves a checkout in initial, collecting or cart
\* to complete or error.
C31_TerminalStepsOnlyFromPayment ==
    [][/\ (step # "complete" /\ step' = "complete") => step = "processing"
       /\ (step # "error" /\ step' = "error") => step \in {"confirming", "processing"}]_vars

\* C32: a session whose expiresAt has passed is treated as absent: no
\* transfer is dispatched to its deposit address and completeSession is not
\* called with its token.
C32_ExpiredSessionNotUsed ==
    [][/\ (ev'.op = "handlePayment" /\ nextTx' # nextTx) => isSessionValid(session)
       /\ \A t \in TxIds :
             tx'[t].completeCalls > tx[t].completeCalls
                 => isSessionValid(tx[t].session)]_vars

\* C33: after clearSession or resetCheckout the session stays absent until
\* a createSession call issued after it succeeds; the response of a call
\* that was in flight at the clear or reset installs no session.
C33_StaleResponseInstallsNothing ==
    [][ev'.op = "createSession.settle"
          => /\ (session' # session /\ session' # NoSession) => session' >= clearMark
             /\ (checkout'.session # checkout.session /\ checkout'.session # NoSession)
                   => checkout'.session >= clearMark]_vars

\* The confirmation screen of a Yours wallet is up without a session.
AwaitingSession ==
    /\ Mounted
    /\ step = "confirming"
    /\ walletProvider = "yours"
    /\ session = NoSession

\* C34: when the step is confirming with a Yours wallet and no session, the
\* creation is triggered automatically and the flow eventually has a session
\* or is in error; it never stays in confirming without a session.
C34_AutoCreateSettles ==
    AwaitingSession ~> (~AwaitingSession \/ nextSession > MaxSessions)

\* C35: the total returned by getCartTotal equals, to the cent, the sum of
\* the returned subtotal, tax and shipping, so the total shown to the buyer
\* equals the totalCents sent as the amount to charge.
C35_TotalIsSumOfParts ==
    \A i \in Instances :
        LET items == carts[i].items
            totals == getCartTotal(items)
        IN  /\ totals.total = totals.subtotal + totals.tax + totals.shipping
            /\ ToCents(totals.total) = cartSessionData(items).totalCents

\* The claim's precondition: every required contact field is valid and, if
\* shipping is collected, the seven required address fields are non-empty.
ProceedValid ==
    /\ collect.email => validateEmail(userContact.email) = ""
    /\ collect.phone => ~PhoneInvalid(userContact.phone)
    /\ collect.shipping
          => /\ userShipping.defined
             /\ \A k \in ShippingKeys : userShipping.fields[k] # <<>>

\* C36: when every required contact field is valid and, if shipping is
\* collected, all seven required shipping-address fields are non-empty,
\* proceeding from the cart view clears the error map and invokes the
\* proceed-to-checkout transition (the step leaves cart).
C36_ValidProceedAdvances ==
    [][(ev'.op = "handleProceedToCheckout" /\ ProceedValid)
          => (valErrors' = {} /\ valStep' \in {"connecting", "confirming"})]_vars

\* C37: the wallet never remains stuck connecting: after connect settles
\* (resolves, rejects, or the provider returns no identity key) isConnecting
\* is false, and the wallet state is never at once isConnected and
\* isConnecting.
C37_NeverStuckConnecting ==
    [][/\ ev'.op = "yoursConnectResolve" => ~walletState'.isConnecting
       /\ ~(walletState'.isConnected /\ walletState'.isConnecting)]_vars

\* The store says connected with a provider that is in fact not connected.
StaleConnection ==
    /\ walletState.isConnected
    /\ \/ walletState.provider = "yours" /\ ~yoursExt
       \/ walletState.provider = "rainbowkit" /\ ~web3Connected

\* C38: after the persisted store is reloaded, a wallet state that says
\* isConnected with a provider that is in fact not connected eventually
\* becomes disconnected (or the provider connects).
C38_StaleWalletReconciled == StaleConnection ~> ~StaleConnection

====
